---- MODULE Spec2Model ----
(***************************************************************************)
(* SehatNama backend: the patient, appointment, prescription, lab-report   *)
(* and document controllers over their MongoDB collections.                *)
(*                                                                         *)
(* One request handler is one action.  A collection is a set of records;   *)
(* an _id is a number drawn from one counter (ObjectIds are never reused), *)
(* so the natural order of a collection is the order of its ids.  An       *)
(* absent or empty string of a request body is "", an absent date is 0.    *)
(* Every handler leaves its HTTP response in resp.  A handler runs from    *)
(* request to response in one step, except under SpecInterleaved,          *)
(* SpecCascade, SpecProfiles and SpecDashboard, where each await of a      *)
(* handler is a step and inflight holds the requests that are between two  *)
(* awaits.                                                                 *)
(***************************************************************************)
EXTENDS Integers, Sequences, FiniteSets, TLC

VARIABLES users, accounts, patients, appointments, prescriptions,
          labReports, documents, files, nextId, inflight, resp

vars == <<users, accounts, patients, appointments, prescriptions, labReports,
          documents, files, nextId, inflight, resp>>

store == <<users, accounts, patients, appointments, prescriptions, labReports,
           documents, files, nextId, inflight>>

(* ------------------------------ bounds -------------------------------- *)

\* ids the counter hands out: records, patients and files ever created
MaxIds == 4

(* --------------------------- value domains ---------------------------- *)

Doctors == {"d1", "d2"}
Admins == {"a1"}
PatientUsers == {"u1", "u2"}
AllUsers == Doctors \cup Admins \cup PatientUsers

PatientIds == {"P-1001", "P-1002"}

Dates == {1, 2}
Times == {"09:30 AM", "14:00"}
Purposes == {"Checkup", "Followup"}
DocTypes == {"prescription", "lab-report", "doctor-note", "other"}
LabTypes == {"CBC", "Lipid"}
LabNames == {"City Lab"}
ReqFields == {"age", "gender", "bloodGroup", "contact", "address", "emergencyContact"}

\* "000000000000000000000000", the placeholder ObjectId of a manual entry
Sentinel == 0

\* req.user.role
roleOfStaff(u) == IF u \in Admins THEN "admin" ELSE "doctor"
role(u) ==
    IF u \in Doctors THEN "doctor"
    ELSE IF u \in Admins THEN "admin"
    ELSE "patient"

(* ------------------------------ helpers ------------------------------- *)

\* Model.findOne({ patientId }) / Model.findOne({ user })
findByPatientId(pid) == {p \in patients : p.patientId = pid}
findByUser(u) == {p \in patients : p.user = u}
findById(coll, id) == {r \in coll : r.id = id}

\* the one element of a singleton set
the(S) == CHOOSE x \in S : TRUE

\* the user a patient reference leads to ("" when it leads nowhere)
ownerOf(pref) ==
    IF \E p \in patients : p.id = pref
    THEN the({p \in patients : p.id = pref}).user
    ELSE ""

\* find() without a sort: the natural order of the collection
RECURSIVE natural(_)
natural(S) ==
    IF S = {} THEN <<>>
    ELSE LET m == CHOOSE x \in S : \A y \in S : x.id <= y.id
         IN <<m>> \o natural(S \ {m})

\* .sort({ key: -1 }): descending by key, ties in the order found
RECURSIVE insertDesc(_, _, _)
insertDesc(x, s, key) ==
    IF s = <<>> THEN <<x>>
    ELSE IF key[Head(s)] >= key[x]
         THEN <<Head(s)>> \o insertDesc(x, Tail(s), key)
         ELSE <<x>> \o s

RECURSIVE sortDesc(_, _)
sortDesc(s, key) ==
    IF s = <<>> THEN <<>>
    ELSE insertDesc(s[Len(s)], sortDesc(SubSeq(s, 1, Len(s) - 1), key), key)

sortByDateDesc(S) == sortDesc(natural(S), [r \in S |-> r.date])
\* createdAt follows the order of creation, as the ids do
sortByIdDesc(S) == sortDesc(natural(S), [r \in S |-> r.id])

\* .skip(n).limit(m); limit(0) is no limit
limitOnly(s, skip, limit) ==
    SubSeq(s, 1, IF limit = 0 \/ limit > Len(s) THEN Len(s) ELSE limit)
skipLimit(s, skip, limit) ==
    SubSeq(s, skip + 1,
           IF limit = 0 \/ skip + limit > Len(s) THEN Len(s) ELSE skip + limit)

\* Math.ceil(a / b) for a >= 0, b > 0
ceilDiv(a, b) == (a + b - 1) \div b

NoResp ==
    [op |-> "", status |-> 0, actor |-> "", target |-> "", owner |-> "",
     id |-> 0, ref |-> 0, items |-> <<>>, created |-> {}, removed |-> {},
     total |-> 0, pages |-> 0,
     file |-> [present |-> FALSE, ext |-> <<>>, mime |-> <<>>, size |-> 0],
     stored |-> {},
     body |-> [has |-> {}, firstName |-> "", lastName |-> "", email |-> "",
               age |-> 0, gender |-> "", bloodGroup |-> "", contact |-> "",
               address |-> "", emergencyContact |-> "", condition |-> "",
               allergies |-> <<>>],
     query |-> [status |-> "", page |-> 0, limit |-> 0, search |-> ""],
     appt |-> [patient |-> "", patientName |-> "", doctor |-> "", date |-> 0,
               time |-> "", purpose |-> "", manualEntry |-> FALSE],
     stats |-> [appointmentsToday |-> 0, remainingAppointments |-> 0,
                labReports |-> 0, pendingReports |-> 0]]

\* a response: target is the patientId of the request, id the record id
\* of the request, ref the patient _id the handler resolved, owner the
\* user that patient is linked to; created and removed are the ids of the
\* records the handler created and removed, file the file of an upload,
\* stored the ids of the files the upload left in storage, body the
\* request body of a handler that writes patient fields, query the
\* req.query of a list handler, appt the request body of
\* updateAppointment, and stats the counts getDashboardStats answers
Resp(op, status, actor, target) ==
    [NoResp EXCEPT !.op = op, !.status = status, !.actor = actor,
                   !.target = target]

RespId(op, status, actor, id) ==
    [NoResp EXCEPT !.op = op, !.status = status, !.actor = actor, !.id = id]

\* protect: the request carries the token of an existing account
protect(actor) == actor \in users

\* doctor: the role gate in front of the doctor-only routes
doctorOrAdmin(actor) == role(actor) \in {"doctor", "admin"}
doctor(actor) == role(actor) = "doctor"

\* the account a user signed up with: the addresses differ from user to
\* user, patientId is unset
signedUp(u) ==
    [firstName |-> "Sana", lastName |-> "Khan", email |-> u, patientId |-> ""]

Init ==
    /\ users = AllUsers
    /\ accounts = [u \in AllUsers |-> signedUp(u)]
    /\ patients = {}
    /\ appointments = {}
    /\ prescriptions = {}
    /\ labReports = {}
    /\ documents = {}
    /\ files = {}
    /\ nextId = 1
    /\ inflight = {}
    /\ resp = NoResp

(* ----------------------- patientController.js ------------------------- *)

\* the fields of a Patient and of its User that a request body can carry
PatientFields ==
    {"age", "gender", "bloodGroup", "contact", "address", "emergencyContact",
     "condition", "allergies"}
UserFields == {"firstName", "lastName", "email"}
Genders == {"Male", "Female", "Other"}

\* a request body: has is the set of the fields the body carries, the
\* other fields are their values (of no account for a field not in has)
NoBody ==
    [has |-> {}, firstName |-> "", lastName |-> "", email |-> "",
     age |-> 0, gender |-> "", bloodGroup |-> "", contact |-> "",
     address |-> "", emergencyContact |-> "", condition |-> "",
     allergies |-> <<>>]

\* if (field): the body carries the field and its value is truthy; 0 and ''
\* are falsy, an array, even an empty one, is truthy
truthy(body, f) ==
    /\ f \in body.has
    /\ CASE f = "age" -> body.age # 0
         [] f = "allergies" -> TRUE
         [] OTHER -> body[f] # ""

patientValidAnyId(body, pid) ==
    /\ "age" \in body.has
    /\ \A f \in ReqFields \ {"age"} : f \in body.has /\ body[f] # ""
    /\ body.gender \in Genders

\* Patient.create validates the schema: a required Number must be given, a
\* required String must be given and not '', gender is one of the enum, and
\* the unique index of patientId admits no second patient of the same id
patientValid(body, pid) ==
    /\ "age" \in body.has
    /\ \A f \in ReqFields \ {"age"} : f \in body.has /\ body[f] # ""
    /\ body.gender \in Genders
    /\ findByPatientId(pid) = {}

\* the Patient that Patient.create stores
newPatient(id, pid, user, body) ==
    [id |-> id, patientId |-> pid, user |-> user,
     age |-> body.age, gender |-> body.gender,
     bloodGroup |-> body.bloodGroup, contact |-> body.contact,
     address |-> body.address, emergencyContact |-> body.emergencyContact,
     condition |-> IF truthy(body, "condition") THEN body.condition ELSE "",
     allergies |-> IF "allergies" \in body.has THEN body.allergies ELSE <<>>]

\* patientId is 'P-' and a random number of four digits
createPatientProfile(actor, pid, body) ==
    /\ protect(actor)
    /\ LET out(status) == [Resp("createPatientProfile", status, actor, pid)
                             EXCEPT !.body = body]
       IN IF findByUser(actor) # {}
          THEN /\ resp' = out(400)
               /\ UNCHANGED store
          ELSE IF ~patientValid(body, pid)
          THEN /\ resp' = out(500)
               /\ UNCHANGED store
          ELSE /\ nextId <= MaxIds
               /\ patients' = patients \cup
                                 {newPatient(nextId, pid, actor, body)}
               /\ accounts' = [accounts EXCEPT ![actor].patientId = pid]
               /\ nextId' = nextId + 1
               /\ resp' = [out(201) EXCEPT !.ref = nextId, !.owner = actor,
                                           !.created = {nextId}]
               /\ UNCHANGED <<inflight, users, appointments, prescriptions, labReports,
                              documents, files>>

\* the _id of the n-th object created, when that object is a User
NewUsers == <<"n1", "n2", "n3", "n4", "n5", "n6", "n7", "n8">>

\* User.findOne({ email })
userExists(email) == \E u \in users : accounts[u].email = email

createPatient(actor, pid, body) ==
    /\ protect(actor)
    /\ LET out(status) == [Resp("createPatient", status, actor, pid)
                             EXCEPT !.body = body]
           user == NewUsers[nextId]
           account(patientId) ==
               [firstName |-> body.firstName, lastName |-> body.lastName,
                email |-> body.email, patientId |-> patientId]
           withUser(patientId) ==
               [u \in users \cup {user} |->
                   IF u = user THEN account(patientId) ELSE accounts[u]]
       IN IF ~doctor(actor)
          THEN /\ resp' = out(403)
               /\ UNCHANGED store
          ELSE IF userExists(body.email)
          THEN /\ resp' = out(400)
               /\ UNCHANGED store
          ELSE IF ~patientValid(body, pid)
          THEN \* User.create has stored the account when Patient.create throws
               /\ nextId <= MaxIds
               /\ users' = users \cup {user}
               /\ accounts' = withUser("")
               /\ nextId' = nextId + 1
               /\ resp' = [out(500) EXCEPT !.owner = user]
               /\ UNCHANGED <<inflight, patients, appointments, prescriptions,
                              labReports, documents, files>>
          ELSE /\ nextId + 1 <= MaxIds
               /\ users' = users \cup {user}
               /\ accounts' = withUser(pid)
               /\ patients' = patients \cup
                                 {newPatient(nextId + 1, pid, user, body)}
               /\ nextId' = nextId + 2
               /\ resp' = [out(201) EXCEPT !.ref = nextId + 1, !.owner = user,
                                           !.created = {nextId + 1}]
               /\ UNCHANGED <<inflight, appointments, prescriptions, labReports,
                              documents, files>>

(* --------------------- appointmentController.js ----------------------- *)

\* a request body of createAppointment / updateAppointment
ApptBody(patient, patientName, doc, date, time, purpose, manualEntry) ==
    [patient |-> patient, patientName |-> patientName, doctor |-> doc,
     date |-> date, time |-> time, purpose |-> purpose,
     manualEntry |-> manualEntry]

createAppointment(actor, body) ==
    /\ protect(actor)
    /\ IF body.date = 0 \/ body.time = "" \/ body.purpose = ""
       THEN /\ resp' = Resp("createAppointment", 400, actor, body.patient)
            /\ UNCHANGED store
       ELSE IF body.manualEntry
       THEN IF body.patientName = ""
            THEN /\ resp' = Resp("createAppointment", 400, actor, body.patient)
                 /\ UNCHANGED store
            ELSE /\ nextId <= MaxIds
                 /\ appointments' = appointments \cup
                      {[id |-> nextId, patient |-> Sentinel,
                        patientName |-> body.patientName,
                        doctor |-> IF body.doctor # "" THEN body.doctor ELSE actor,
                        date |-> body.date, time |-> body.time,
                        purpose |-> body.purpose, manualEntry |-> TRUE]}
                 /\ nextId' = nextId + 1
                 /\ resp' = [Resp("createAppointment", 201, actor, body.patient)
                               EXCEPT !.created = {nextId}]
                 /\ UNCHANGED <<inflight, users, accounts, patients, prescriptions, labReports,
                                documents, files>>
       ELSE IF body.patient = ""
       THEN /\ resp' = Resp("createAppointment", 400, actor, body.patient)
            /\ UNCHANGED store
       ELSE IF findByPatientId(body.patient) = {}
       THEN /\ resp' = Resp("createAppointment", 404, actor, body.patient)
            /\ UNCHANGED store
       ELSE LET patientDoc == the(findByPatientId(body.patient)) IN
            /\ nextId <= MaxIds
            /\ appointments' = appointments \cup
                 {[id |-> nextId, patient |-> patientDoc.id,
                   patientName |-> "",
                   doctor |-> IF body.doctor # "" THEN body.doctor ELSE actor,
                   date |-> body.date, time |-> body.time,
                   purpose |-> body.purpose, manualEntry |-> FALSE]}
            /\ nextId' = nextId + 1
            /\ resp' = [Resp("createAppointment", 201, actor, body.patient)
                          EXCEPT !.created = {nextId}, !.ref = patientDoc.id,
                                 !.owner = patientDoc.user]
            /\ UNCHANGED <<inflight, users, accounts, patients, prescriptions, labReports,
                           documents, files>>

updateAppointment(actor, id, body) ==
    /\ protect(actor)
    /\ IF findById(appointments, id) = {}
       THEN /\ resp' = RespId("updateAppointment", 404, actor, id)
            /\ UNCHANGED store
       ELSE LET appointment == the(findById(appointments, id))
                a1 == [appointment EXCEPT
                         !.date = IF body.date # 0 THEN body.date ELSE @,
                         !.time = IF body.time # "" THEN body.time ELSE @,
                         !.purpose = IF body.purpose # "" THEN body.purpose ELSE @]
                a2 == IF body.manualEntry
                      THEN [a1 EXCEPT !.patientName = body.patientName,
                                      !.manualEntry = TRUE]
                      ELSE [a1 EXCEPT
                              !.patientName = "",
                              !.manualEntry = FALSE,
                              !.patient =
                                  IF body.patient # "" /\ findByPatientId(body.patient) # {}
                                  THEN the(findByPatientId(body.patient)).id
                                  ELSE @]
                a3 == IF body.doctor # "" /\ role(actor) = "admin"
                      THEN [a2 EXCEPT !.doctor = body.doctor]
                      ELSE a2
            IN /\ appointments' = (appointments \ {appointment}) \cup {a3}
               /\ resp' = [RespId("updateAppointment", 200, actor, id)
                             EXCEPT !.appt = body,
                                    !.ref = appointment.patient,
                                    !.owner = ownerOf(appointment.patient),
                                    !.items = <<a3>>]
               /\ UNCHANGED <<inflight, users, accounts, patients, prescriptions, labReports,
                              documents, files, nextId>>

getAppointment(actor, id) ==
    /\ protect(actor)
    /\ IF findById(appointments, id) = {}
       THEN resp' = RespId("getAppointment", 404, actor, id)
       ELSE LET appointment == the(findById(appointments, id)) IN
            resp' = [RespId("getAppointment", 200, actor, id)
                       EXCEPT !.ref = appointment.patient,
                              !.owner = ownerOf(appointment.patient),
                              !.items = <<appointment>>]
    /\ UNCHANGED store

deleteAppointment(actor, id) ==
    /\ protect(actor)
    /\ IF findById(appointments, id) = {}
       THEN /\ resp' = RespId("deleteAppointment", 404, actor, id)
            /\ UNCHANGED store
       ELSE LET appointment == the(findById(appointments, id)) IN
            /\ appointments' = appointments \ {appointment}
            /\ resp' = [RespId("deleteAppointment", 200, actor, id)
                          EXCEPT !.ref = appointment.patient,
                                 !.owner = ownerOf(appointment.patient)]
            /\ UNCHANGED <<inflight, users, accounts, patients, prescriptions, labReports,
                           documents, files, nextId>>

getPatientAppointments(actor, pid) ==
    /\ protect(actor)
    /\ IF findByPatientId(pid) = {}
       THEN resp' = Resp("getPatientAppointments", 404, actor, pid)
       ELSE LET patient == the(findByPatientId(pid)) IN
            resp' = [Resp("getPatientAppointments", 200, actor, pid)
                       EXCEPT !.ref = patient.id, !.owner = patient.user,
                              !.items = sortByDateDesc(
                                  {a \in appointments : a.patient = patient.id})]
    /\ UNCHANGED store

(* --------------------- prescriptionController.js ---------------------- *)

\* date ? new Date(date) : new Date()
dateOrNow(date, now) == IF date # 0 THEN date ELSE now

createPrescription(actor, pid, date, now) ==
    /\ protect(actor)
    /\ IF ~doctor(actor)
       THEN /\ resp' = Resp("createPrescription", 403, actor, pid)
            /\ UNCHANGED store
       ELSE IF findByPatientId(pid) = {}
       THEN /\ resp' = Resp("createPrescription", 404, actor, pid)
            /\ UNCHANGED store
       ELSE LET patient == the(findByPatientId(pid)) IN
            /\ nextId <= MaxIds
            /\ prescriptions' = prescriptions \cup
                 {[id |-> nextId, patient |-> patient.id, doctor |-> actor,
                   date |-> dateOrNow(date, now), status |-> "Active",
                   src |-> 0]}
            /\ nextId' = nextId + 1
            \* the response reads patient.user.firstName of the populated user
            /\ resp' = [Resp("createPrescription",
                             IF patient.user \in users THEN 201 ELSE 500,
                             actor, pid)
                          EXCEPT !.ref = patient.id, !.owner = patient.user,
                                 !.created = {nextId}]
            /\ UNCHANGED <<inflight, users, accounts, patients, appointments, labReports,
                           documents, files>>

\* the query of getAllPrescriptions: a patient sees the prescriptions of
\* the profile linked to the account
prescriptionQuery(actor, rx) ==
    role(actor) = "patient" => rx.patient = the(findByUser(actor)).id

\* the references a formatted prescription dereferences all lead somewhere
prescriptionPopulated(rx) ==
    /\ \E p \in patients : p.id = rx.patient /\ p.user \in users
    /\ rx.doctor \in users

getAllPrescriptions(actor) ==
    /\ protect(actor)
    /\ IF role(actor) = "patient" /\ findByUser(actor) = {}
       THEN resp' = Resp("getAllPrescriptions", 404, actor, "")
       ELSE LET found == {rx \in prescriptions :
                             prescriptionQuery(actor, rx)}
            IN IF \E rx \in found : ~prescriptionPopulated(rx)
               THEN resp' = Resp("getAllPrescriptions", 500, actor, "")
               ELSE resp' = [Resp("getAllPrescriptions", 200, actor, "")
                               EXCEPT !.items = sortByIdDesc(found)]
    /\ UNCHANGED store

(* ---------------------- labReportController.js ------------------------ *)

\* strings that a $regex is matched against are sequences of characters
Str(s) ==
    CASE s = "CBC" -> <<"C", "B", "C">>
      [] s = "Lipid" -> <<"L", "i", "p", "i", "d">>
      [] s = "City Lab" -> <<"C", "i", "t", "y", " ", "L", "a", "b">>
      [] s = "Extracted Lab Report" ->
            <<"E", "x", "t", "r", "a", "c", "t", "e", "d", " ", "L", "a", "b",
              " ", "R", "e", "p", "o", "r", "t">>
      [] s = "Document Processing System" ->
            <<"D", "o", "c", "u", "m", "e", "n", "t", " ", "P", "r", "o", "c",
              "e", "s", "s", "i", "n", "g", " ", "S", "y", "s", "t", "e", "m">>
      [] s = "cb" -> <<"c", "b">>
      [] s = "LAB" -> <<"L", "A", "B">>
      [] OTHER -> <<>>

toLower(c) ==
    CASE c = "A" -> "a" [] c = "B" -> "b" [] c = "C" -> "c" [] c = "D" -> "d"
      [] c = "E" -> "e" [] c = "L" -> "l" [] c = "P" -> "p" [] c = "R" -> "r"
      [] c = "S" -> "s" [] c = "F" -> "f" [] c = "X" -> "x" [] OTHER -> c

\* { $regex: search, $options: 'i' }: search occurs in s, letter case ignored
regexI(search, s) ==
    LET a == [i \in 1..Len(Str(search)) |-> toLower(Str(search)[i])]
        b == [i \in 1..Len(Str(s)) |-> toLower(Str(s)[i])]
    IN \E k \in 0..(Len(b) - Len(a)) :
          \A i \in 1..Len(a) : b[k + i] = a[i]

\* Patient.find({ $or: [{ firstName }, { lastName }] }): the Patient schema has
\* neither path.  With strictQuery the unknown paths are stripped and every
\* patient matches; without it no patient does.
patientsByName(search, strictQuery) ==
    IF strictQuery THEN {p.id : p \in patients} ELSE {}

labReportQueryOrReplaces(actor, status, search, strictQuery, r) ==
    IF search # ""
    THEN /\ status # "" => r.status = status
         /\ \/ regexI(search, r.type)
            \/ regexI(search, r.lab)
            \/ r.patient \in patientsByName(search, strictQuery)
    ELSE /\ role(actor) = "patient" => r.patient = the(findByUser(actor)).id
         /\ status # "" => r.status = status

\* the query of getAllLabReports; its top-level conditions are conjoined
labReportQuery(actor, status, search, strictQuery, r) ==
    /\ role(actor) = "patient" => r.patient = the(findByUser(actor)).id
    /\ status # "" => r.status = status
    /\ search # "" =>
          \/ regexI(search, r.type)
          \/ regexI(search, r.lab)
          \/ r.patient \in patientsByName(search, strictQuery)

Absent == 0 - 1
DefaultPage == 1
DefaultLimit == 10

getAllLabReports(actor, status, page, limit, search, strictQuery) ==
    /\ protect(actor)
    /\ IF role(actor) = "patient" /\ findByUser(actor) = {}
       THEN resp' = Resp("getAllLabReports", 404, actor, "")
       ELSE LET pg == IF page = Absent THEN DefaultPage ELSE page
                lim == IF limit = Absent THEN DefaultLimit ELSE limit
                skip == (pg - 1) * lim
                found == {r \in labReports :
                            labReportQuery(actor, status, search, strictQuery, r)}
                query == [status |-> status, page |-> page, limit |-> limit,
                          search |-> search]
            IN IF skip < 0 \/ lim < 0
               THEN resp' = Resp("getAllLabReports", 500, actor, "")
               ELSE resp' = [Resp("getAllLabReports", 200, actor, "")
                               EXCEPT !.query = query,
                                      !.items = skipLimit(sortByDateDesc(found),
                                                          skip, lim),
                                      !.total = Cardinality(found),
                                      !.pages = IF lim = 0 THEN 0
                                                ELSE ceilDiv(Cardinality(found), lim)]
    /\ UNCHANGED store

createLabReport(actor, pid, type, lab, date, now) ==
    /\ protect(actor)
    /\ IF ~doctor(actor)
       THEN /\ resp' = Resp("createLabReport", 403, actor, pid)
            /\ UNCHANGED store
       ELSE IF findByPatientId(pid) = {}
       THEN /\ resp' = Resp("createLabReport", 404, actor, pid)
            /\ UNCHANGED store
       ELSE IF type = "" \/ lab = ""
       THEN /\ resp' = Resp("createLabReport", 500, actor, pid)
            /\ UNCHANGED store
       ELSE LET patient == the(findByPatientId(pid)) IN
            /\ nextId <= MaxIds
            /\ labReports' = labReports \cup
                 {[id |-> nextId, patient |-> patient.id,
                   requestedBy |-> actor, type |-> type, lab |-> lab,
                   date |-> dateOrNow(date, now), status |-> "Pending",
                   src |-> 0]}
            /\ nextId' = nextId + 1
            /\ resp' = [Resp("createLabReport", 201, actor, pid)
                          EXCEPT !.ref = patient.id, !.owner = patient.user,
                                 !.created = {nextId}]
            /\ UNCHANGED <<inflight, users, accounts, patients, appointments, prescriptions,
                           documents, files>>

(* ------- labReportController.js, prescriptionController.js: update ----- *)

\* the enum of labReportSchema.status and of prescriptionSchema.status
LabStatuses == {"Pending", "In Progress", "Completed", "Cancelled"}
RxStatuses == {"Active", "Completed", "Cancelled"}

\* req.user.role === 'admin' || req.user._id equals the doctor of the record
canUpdateAnyDoctor(actor, issuer) ==
    role(actor) = "admin" \/ role(actor) = "doctor"
canUpdate(actor, issuer) == role(actor) = "admin" \/ actor = issuer

\* a field is assigned when its value in the body is truthy
updateLabReport(actor, id, status, date) ==
    /\ protect(actor)
    /\ IF ~doctor(actor)
       THEN resp' = RespId("updateLabReport", 403, actor, id)
       ELSE IF findById(labReports, id) = {}
       THEN resp' = RespId("updateLabReport", 404, actor, id)
       ELSE IF ~canUpdate(actor, the(findById(labReports, id)).requestedBy)
       THEN resp' = RespId("updateLabReport", 403, actor, id)
       ELSE IF status # "" /\ status \notin LabStatuses
       THEN resp' = RespId("updateLabReport", 500, actor, id)
       ELSE resp' = RespId("updateLabReport", 200, actor, id)
    /\ labReports' =
          IF resp'.status = 200
          THEN {IF r.id = id
                THEN [r EXCEPT !.status = IF status # "" THEN status ELSE @,
                               !.date = IF date # 0 THEN date ELSE @]
                ELSE r : r \in labReports}
          ELSE labReports
    /\ UNCHANGED <<inflight, users, accounts, patients, appointments,
                   prescriptions, documents, files, nextId>>

updatePrescription(actor, id, status) ==
    /\ protect(actor)
    /\ IF ~doctor(actor)
       THEN resp' = RespId("updatePrescription", 403, actor, id)
       ELSE IF findById(prescriptions, id) = {}
       THEN resp' = RespId("updatePrescription", 404, actor, id)
       ELSE IF ~canUpdate(actor, the(findById(prescriptions, id)).doctor)
       THEN resp' = RespId("updatePrescription", 403, actor, id)
       ELSE IF status # "" /\ status \notin RxStatuses
       THEN resp' = RespId("updatePrescription", 500, actor, id)
       ELSE resp' = RespId("updatePrescription", 200, actor, id)
    /\ prescriptions' =
          IF resp'.status = 200
          THEN {IF rx.id = id
                THEN [rx EXCEPT !.status = IF status # "" THEN status ELSE @]
                ELSE rx : rx \in prescriptions}
          ELSE prescriptions
    /\ UNCHANGED <<inflight, users, accounts, patients, appointments,
                   labReports, documents, files, nextId>>

(* ------------------ patientController.js: documents ------------------- *)

isAuthorizedAnyPatient(actor, patientUser) ==
    role(actor) \in {"doctor", "admin", "patient"}

\* the access rule of the patient-scoped handlers:
\* isDoctor || isPatient || isAdmin
isAuthorized(actor, patientUser) ==
    \/ role(actor) = "doctor"
    \/ role(actor) = "admin"
    \/ role(actor) = "patient" /\ actor = patientUser

(* multer: upload.single('document') *)

\* an uploaded file: the extension of its original name (path.extname, with
\* the dot), the content type the client declared and its size in bytes;
\* strings the fileFilter matches are sequences of characters
File(ext, mime, size) ==
    [present |-> TRUE, ext |-> ext, mime |-> mime, size |-> size]
\* a request without a file part
NoFile == [present |-> FALSE, ext |-> <<>>, mime |-> <<>>, size |-> 0]

\* limits: { fileSize: 10 * 1024 * 1024 }
MaxFileSize == 10485760

applicationPdf ==
    <<"a", "p", "p", "l", "i", "c", "a", "t", "i", "o", "n", "/", "p", "d", "f">>
applicationMsword ==
    <<"a", "p", "p", "l", "i", "c", "a", "t", "i", "o", "n", "/",
      "m", "s", "w", "o", "r", "d">>
applicationExe ==
    <<"a", "p", "p", "l", "i", "c", "a", "t", "i", "o", "n", "/",
      "x", "-", "m", "s", "d", "o", "w", "n", "l", "o", "a", "d">>
textPlain == <<"t", "e", "x", "t", "/", "p", "l", "a", "i", "n">>

pdfFile == File(<<".", "p", "d", "f">>, applicationPdf, 1024)
upperPdfFile == File(<<".", "P", "D", "F">>, applicationPdf, 1024)
exeFile == File(<<".", "e", "x", "e">>, applicationExe, 1024)
renamedExeFile == File(<<".", "e", "x", "e">>, applicationPdf, 1024)
docFile == File(<<".", "d", "o", "c">>, applicationMsword, 1024)
docmFile == File(<<".", "d", "o", "c", "m">>, applicationPdf, 1024)
textAsPdfFile == File(<<".", "p", "d", "f">>, textPlain, 1024)
limitPdfFile == File(<<".", "p", "d", "f">>, applicationPdf, MaxFileSize)
bigPdfFile == File(<<".", "p", "d", "f">>, applicationPdf, MaxFileSize + 1)

Files ==
    {pdfFile, upperPdfFile, exeFile, renamedExeFile, docFile, docmFile,
     textAsPdfFile, limitPdfFile, bigPdfFile, NoFile}

\* String.prototype.toLowerCase
lowerCase(s) == [i \in 1..Len(s) |-> toLower(s[i])]

\* RegExp.prototype.test of a regular expression without anchors: one of
\* its alternatives occurs somewhere in the string
occursIn(a, b) ==
    \E k \in 0..(Len(b) - Len(a)) : \A i \in 1..Len(a) : b[k + i] = a[i]

\* const filetypes = /jpeg|jpg|png|gif|pdf|doc|docx/
filetypes ==
    {<<"j", "p", "e", "g">>, <<"j", "p", "g">>, <<"p", "n", "g">>,
     <<"g", "i", "f">>, <<"p", "d", "f">>, <<"d", "o", "c">>,
     <<"d", "o", "c", "x">>}

filetypesTest(s) == \E a \in filetypes : occursIn(a, s)

\* fileFilter: extname && mimetype
fileFilter(file) ==
    /\ filetypesTest(lowerCase(file.ext))
    /\ filetypesTest(file.mime)

\* the size limit: the stream is cut, and the upload fails with
\* LIMIT_FILE_SIZE, when more than fileSize bytes arrive
withinLimits(file) == file.size <= MaxFileSize

\* upload(req, res, cb) calls back without an error
uploadAccepted(file) == fileFilter(file) /\ withinLimits(file)

uploadPatientDocument(actor, pid, file, title, type, processed, now) ==
    /\ protect(actor)
    /\ IF file.present /\ ~uploadAccepted(file)
       THEN \* a file the filter refuses is not written; one cut at the
            \* size limit is removed again
            /\ resp' = [Resp("uploadPatientDocument", 400, actor, pid)
                          EXCEPT !.file = file]
            /\ UNCHANGED store
       ELSE IF ~file.present
       THEN /\ resp' = [Resp("uploadPatientDocument", 400, actor, pid)
                          EXCEPT !.file = file]
            /\ UNCHANGED store
       ELSE \* diskStorage has written the file before the handler runs
            /\ nextId <= MaxIds
            /\ files' = files \cup {nextId}
            /\ nextId' = nextId + 1
            /\ IF findByPatientId(pid) = {}
               THEN /\ resp' = [Resp("uploadPatientDocument", 404, actor, pid)
                                  EXCEPT !.file = file, !.stored = {nextId}]
                    /\ UNCHANGED documents
               ELSE IF type # "" /\ type \notin DocTypes
               THEN /\ resp' = [Resp("uploadPatientDocument", 500, actor, pid)
                                  EXCEPT !.file = file, !.stored = {nextId}]
                    /\ UNCHANGED documents
               ELSE LET patient == the(findByPatientId(pid)) IN
                    /\ documents' = documents \cup
                         {[id |-> nextId, patient |-> patient.id,
                           title |-> IF title # "" THEN title
                                     ELSE "Untitled Document",
                           type |-> IF type # "" THEN type ELSE "other",
                           date |-> now, uploadedBy |-> actor,
                           processed |-> processed]}
                    /\ resp' = [Resp("uploadPatientDocument", 201, actor, pid)
                                  EXCEPT !.ref = patient.id,
                                         !.owner = patient.user,
                                         !.id = nextId, !.created = {nextId},
                                         !.file = file, !.stored = {nextId}]
            /\ UNCHANGED <<inflight, users, accounts, patients, appointments, prescriptions,
                           labReports>>

canDeleteDocumentOrAnyPatient(actor, document) ==
    role(actor) \in {"doctor", "admin", "patient"}

\* deletePatientDocument: isDoctor || isAdmin || isUploader
canDeleteDocument(actor, document) ==
    \/ role(actor) = "doctor"
    \/ role(actor) = "admin"
    \/ document.uploadedBy = actor

\* unlinkFails: fs.unlinkSync throws; removeSupported: the Mongoose of the
\* build still has Document.prototype.remove (it is gone since Mongoose 7,
\* where the call throws a TypeError)
deletePatientDocument(actor, pid, documentId, unlinkFails, removeSupported) ==
    /\ protect(actor)
    /\ LET out(status) ==
               [Resp("deletePatientDocument", status, actor, pid)
                  EXCEPT !.id = documentId]
       IN IF findByPatientId(pid) = {}
          THEN /\ resp' = out(404)
               /\ UNCHANGED store
          ELSE IF findById(documents, documentId) = {}
          THEN /\ resp' = out(404)
               /\ UNCHANGED store
          ELSE LET patient == the(findByPatientId(pid))
                   document == the(findById(documents, documentId))
                   found(status) == [out(status) EXCEPT !.ref = patient.id,
                                                        !.owner = patient.user]
               IN IF document.patient # patient.id
                  THEN /\ resp' = found(403)
                       /\ UNCHANGED store
                  ELSE IF ~canDeleteDocument(actor, document)
                  THEN /\ resp' = found(403)
                       /\ UNCHANGED store
                  ELSE IF document.id \in files /\ unlinkFails
                  THEN \* the exception of unlinkSync reaches the catch
                       /\ resp' = found(500)
                       /\ UNCHANGED store
                  ELSE IF ~removeSupported
                  THEN \* the file is gone, document.remove() throws
                       /\ files' = files \ {document.id}
                       /\ resp' = found(500)
                       /\ UNCHANGED <<inflight, users, accounts, patients, appointments,
                                      prescriptions, labReports, documents,
                                      nextId>>
                  ELSE /\ files' = files \ {document.id}
                       /\ documents' = documents \ {document}
                       /\ resp' = [found(200) EXCEPT !.removed = {document.id}]
                       /\ UNCHANGED <<inflight, users, accounts, patients, appointments,
                                      prescriptions, labReports, nextId>>

\* document.save() of processPatientDocument: what the store holds of the
\* document afterwards.  The 'prescription' branch never saves.
savedDocument(document) ==
    IF document.type = "prescription"
    THEN document
    ELSE [document EXCEPT !.processed = TRUE]

\* the records processPatientDocument creates from a document
extractedPrescriptionsAlso(document, patient, actor, now, id) ==
    IF document.type \in {"prescription", "lab-report"}
    THEN {[id |-> id, patient |-> patient.id, doctor |-> actor,
           date |-> now, status |-> "Active", src |-> document.id]}
    ELSE {}

extractedPrescriptions(document, patient, actor, now, id) ==
    IF document.type = "prescription"
    THEN {[id |-> id, patient |-> patient.id, doctor |-> actor,
           date |-> now, status |-> "Active", src |-> document.id]}
    ELSE {}

extractedLabReports(document, patient, actor, now, id) ==
    IF document.type = "lab-report"
    THEN {[id |-> id, patient |-> patient.id, requestedBy |-> actor,
           type |-> "Extracted Lab Report",
           lab |-> "Document Processing System",
           date |-> now, status |-> "Completed", src |-> document.id]}
    ELSE {}

processPatientDocument(actor, pid, documentId, now) ==
    /\ protect(actor)
    /\ IF ~doctor(actor)
       THEN /\ resp' = [Resp("processPatientDocument", 403, actor, pid)
                          EXCEPT !.id = documentId]
            /\ UNCHANGED store
       ELSE IF findByPatientId(pid) = {}
       THEN /\ resp' = [Resp("processPatientDocument", 404, actor, pid)
                          EXCEPT !.id = documentId]
            /\ UNCHANGED store
       ELSE IF findById(documents, documentId) = {}
       THEN /\ resp' = [Resp("processPatientDocument", 404, actor, pid)
                          EXCEPT !.id = documentId]
            /\ UNCHANGED store
       ELSE IF role(actor) # "doctor" /\ role(actor) # "admin"
       THEN /\ resp' = [Resp("processPatientDocument", 403, actor, pid)
                          EXCEPT !.id = documentId]
            /\ UNCHANGED store
       ELSE LET patient == the(findByPatientId(pid))
                document == the(findById(documents, documentId))
                newRx == extractedPrescriptions(document, patient, actor,
                                                now, nextId)
                newLab == extractedLabReports(document, patient, actor,
                                              now, nextId)
                made == {r.id : r \in newRx} \cup {r.id : r \in newLab}
            IN /\ made # {} => nextId <= MaxIds
               /\ prescriptions' = prescriptions \cup newRx
               /\ labReports' = labReports \cup newLab
               /\ nextId' = IF made # {} THEN nextId + 1 ELSE nextId
               /\ documents' = (documents \ {document}) \cup
                                  {savedDocument(document)}
               /\ resp' = [Resp("processPatientDocument", 200, actor, pid)
                             EXCEPT !.id = documentId, !.ref = patient.id,
                                    !.owner = patient.user,
                                    !.created = made]
               /\ UNCHANGED <<inflight, users, accounts, patients, appointments, files>>

getPatientDocuments(actor, pid) ==
    /\ protect(actor)
    /\ IF findByPatientId(pid) = {}
       THEN resp' = Resp("getPatientDocuments", 404, actor, pid)
       ELSE LET patient == the(findByPatientId(pid))
                found == {d \in documents : d.patient = patient.id}
                out(status) == [Resp("getPatientDocuments", status, actor, pid)
                                  EXCEPT !.ref = patient.id,
                                         !.owner = patient.user]
            IN IF ~isAuthorized(actor, patient.user)
               THEN resp' = out(403)
               \* doc.uploadedBy.role of a populated uploader
               ELSE IF \E d \in found : d.uploadedBy \notin users
               THEN resp' = out(500)
               ELSE resp' = [out(200) EXCEPT !.items = sortByDateDesc(found)]
    /\ UNCHANGED store

(* ------------------- patientController.js: patients ------------------- *)

\* the references getPatient and getPatientHistory dereference when they
\* format the records of a patient: appointment.doctor, prescription.doctor,
\* report.requestedBy
recordsPopulated(pref) ==
    /\ \A a \in appointments : a.patient = pref => a.doctor \in users
    /\ \A rx \in prescriptions : rx.patient = pref => rx.doctor \in users
    /\ \A r \in labReports : r.patient = pref => r.requestedBy \in users

getPatient(actor, pid) ==
    /\ protect(actor)
    /\ IF findByPatientId(pid) = {}
       THEN resp' = Resp("getPatient", 404, actor, pid)
       ELSE LET patient == the(findByPatientId(pid))
                out(status) == [Resp("getPatient", status, actor, pid)
                                  EXCEPT !.ref = patient.id,
                                         !.owner = patient.user]
            IN IF patient.user \notin users
               THEN resp' = out(500)
               ELSE IF ~isAuthorized(actor, patient.user)
               THEN resp' = out(403)
               ELSE IF ~recordsPopulated(patient.id)
               THEN resp' = out(500)
               ELSE resp' = out(200)
    /\ UNCHANGED store

\* if (field) patient.field = field, for every field of the patient
patchedPatient(patient, body) ==
    [patient EXCEPT
       !.age = IF truthy(body, "age") THEN body.age ELSE @,
       !.gender = IF truthy(body, "gender") THEN body.gender ELSE @,
       !.bloodGroup = IF truthy(body, "bloodGroup") THEN body.bloodGroup ELSE @,
       !.contact = IF truthy(body, "contact") THEN body.contact ELSE @,
       !.address = IF truthy(body, "address") THEN body.address ELSE @,
       !.emergencyContact =
           IF truthy(body, "emergencyContact") THEN body.emergencyContact ELSE @,
       !.condition = IF truthy(body, "condition") THEN body.condition ELSE @,
       !.allergies = IF truthy(body, "allergies") THEN body.allergies ELSE @]

\* if (firstName || lastName || email): the same for the fields of the user
patchedAccount(account, body) ==
    [account EXCEPT
       !.firstName = IF truthy(body, "firstName") THEN body.firstName ELSE @,
       !.lastName = IF truthy(body, "lastName") THEN body.lastName ELSE @,
       !.email = IF truthy(body, "email") THEN body.email ELSE @]

updatePatient(actor, pid, body) ==
    /\ protect(actor)
    /\ IF findByPatientId(pid) = {}
       THEN /\ resp' = [Resp("updatePatient", 404, actor, pid)
                          EXCEPT !.body = body]
            /\ UNCHANGED store
       ELSE LET patient == the(findByPatientId(pid))
                out(status) == [Resp("updatePatient", status, actor, pid)
                                  EXCEPT !.ref = patient.id,
                                         !.owner = patient.user,
                                         !.body = body]
            IN IF patient.user \notin users
               THEN /\ resp' = out(500)
                    /\ UNCHANGED store
               ELSE IF ~isAuthorized(actor, patient.user)
               THEN /\ resp' = out(403)
                    /\ UNCHANGED store
               ELSE IF patchedPatient(patient, body).gender \notin Genders
               THEN \* patient.save() fails the validation of the enum
                    /\ resp' = out(500)
                    /\ UNCHANGED store
               ELSE /\ patients' = (patients \ {patient}) \cup
                                      {patchedPatient(patient, body)}
                    /\ accounts' =
                          [accounts EXCEPT ![patient.user] =
                              patchedAccount(@, body)]
                    /\ resp' = out(200)
                    /\ UNCHANGED <<inflight, users, appointments, prescriptions,
                                   labReports, documents, files, nextId>>

(* ------------------------ getPatientHistory --------------------------- *)

\* a number or NaN
Num(n) == [nan |-> FALSE, v |-> n]
NaN == [nan |-> TRUE, v |-> 0]

\* `${a.date}` of a Date: Date.prototype.toString(), as in
\* "Wed Jan 10 2024 00:00:00 GMT+0000 (Coordinated Universal Time)"
dateToString(d) == [format |-> "toString", day |-> d]

\* `${a.date}T${a.time}`
dateTimeString(e) == <<dateToString(e.date), "T", e.time>>

\* minutes of a time of day written HH:mm
isoMinutes(t) ==
    CASE t = "14:00" -> 840
      [] OTHER -> 0 - 1

\* new Date(string): the string parses when it is an ISO date, "T" and an
\* HH:mm time; a toString() date followed by "T..." is an Invalid Date,
\* whose time value is NaN
dateParse(s) ==
    IF s[1].format = "ISO" /\ isoMinutes(s[3]) >= 0
    THEN Num(s[1].day * 1440 + isoMinutes(s[3]))
    ELSE NaN

minus(x, y) == IF x.nan \/ y.nan THEN NaN ELSE Num(x.v - y.v)

\* the comparator of history.sort: dateB - dateA
compareHistory(a, b) ==
    LET dateA == dateParse(dateTimeString(a))
        dateB == dateParse(dateTimeString(b))
    IN minus(dateB, dateA)

\* Array.prototype.sort: a comparator result of NaN counts as +0
sortCompare(a, b) ==
    LET v == compareHistory(a, b) IN IF v.nan THEN 0 ELSE v.v

\* Array.prototype.sort is stable
RECURSIVE insertHistory(_, _)
insertHistory(x, s) ==
    IF s = <<>> THEN <<x>>
    ELSE IF sortCompare(Head(s), x) > 0
         THEN <<x>> \o s
         ELSE <<Head(s)>> \o insertHistory(x, Tail(s))

RECURSIVE historySort(_)
historySort(s) ==
    IF s = <<>> THEN <<>>
    ELSE insertHistory(s[Len(s)], historySort(SubSeq(s, 1, Len(s) - 1)))

mapSeq(s, f) == [i \in 1..Len(s) |-> f[s[i]]]

\* the collections getPatientHistory reads for a patient
historyAppointmentsOfAll(pref) == {a \in appointments : a.patient # Sentinel}
historyAppointments(pref) == {a \in appointments : a.patient = pref}
historyPrescriptions(pref) == {rx \in prescriptions : rx.patient = pref}
historyLabReports(pref) == {r \in labReports : r.patient = pref}
historyNotesOfAnyType(pref) == {d \in documents : d.patient = pref}
historyNotes(pref) ==
    {d \in documents : d.patient = pref /\ d.type = "doctor-note"}

appointmentEvent(apt) ==
    [type |-> "appointment", ref |-> apt.id, date |-> apt.date,
     time |-> IF apt.time # "" THEN apt.time ELSE "09:00 AM",
     title |-> <<apt.purpose, "Appointment">>]

prescriptionEvent(rx) ==
    [type |-> "prescription", ref |-> rx.id, date |-> rx.date,
     time |-> "09:30 AM", title |-> <<"Prescription", "Update">>]

labEvent(report) ==
    [type |-> "lab", ref |-> report.id, date |-> report.date,
     time |-> "11:00 AM", title |-> <<report.type>>]

noteEvent(note) ==
    [type |-> "note", ref |-> note.id, date |-> note.date,
     time |-> "11:45 AM",
     title |-> <<IF note.title # "" THEN note.title ELSE "Doctor's Note">>]

\* the unified timeline, before the sort
history(pref) ==
    LET A == historyAppointments(pref)
        P == historyPrescriptions(pref)
        L == historyLabReports(pref)
        N == historyNotes(pref)
    IN mapSeq(natural(A), [a \in A |-> appointmentEvent(a)])
       \o mapSeq(natural(P), [rx \in P |-> prescriptionEvent(rx)])
       \o mapSeq(natural(L), [r \in L |-> labEvent(r)])
       \o mapSeq(natural(N), [d \in N |-> noteEvent(d)])

getPatientHistory(actor, pid) ==
    /\ protect(actor)
    /\ IF findByPatientId(pid) = {}
       THEN resp' = Resp("getPatientHistory", 404, actor, pid)
       ELSE LET patient == the(findByPatientId(pid))
                out(status) == [Resp("getPatientHistory", status, actor, pid)
                                  EXCEPT !.ref = patient.id,
                                         !.owner = patient.user]
            IN IF patient.user \notin users
               THEN resp' = out(500)
               ELSE IF ~isAuthorized(actor, patient.user)
               THEN resp' = out(403)
               ELSE IF \/ ~recordsPopulated(patient.id)
                       \/ \E d \in historyNotes(patient.id) :
                             d.uploadedBy \notin users
               THEN resp' = out(500)
               ELSE resp' = [out(200) EXCEPT
                               !.items = historySort(history(patient.id))]
    /\ UNCHANGED store

(* --------------------------- deletePatient ---------------------------- *)

\* the cascade of deletePatient, step by step
documentsDeletedWhenUnlinked(pref, unlinkFails) ==
    {d \in documents : d.patient # pref \/ d.id \in unlinkFails}
\* doc.deleteOne() follows the try around the unlink, whatever its outcome
documentsAfterDelete(pref, unlinkFails) ==
    {d \in documents : d.patient # pref}
\* fs.unlinkSync of every document's file; a failing unlink is caught
filesAfterDelete(pref, unlinkFails) ==
    {f \in files :
        \/ f \in unlinkFails
        \/ ~\E d \in documents : d.patient = pref /\ d.id = f}
appointmentsAfterDelete(pref) == {a \in appointments : a.patient # pref}
prescriptionsKept(pref) == prescriptions
prescriptionsAfterDelete(pref) == {rx \in prescriptions : rx.patient # pref}
labReportsKept(pref) == labReports
labReportsAfterDelete(pref) == {r \in labReports : r.patient # pref}
patientsAfterDelete(patient) == patients \ {patient}
usersAfterDelete(patient) == users \ {patient.user}
accountsAfterDelete(patient) ==
    [u \in usersAfterDelete(patient) |-> accounts[u]]

\* the ids of the records that reference a patient
dependents(pref) ==
    {d.id : d \in {x \in documents : x.patient = pref}}
    \cup {a.id : a \in {x \in appointments : x.patient = pref}}
    \cup {rx.id : rx \in {x \in prescriptions : x.patient = pref}}
    \cup {r.id : r \in {x \in labReports : x.patient = pref}}

deletePatient(actor, pid, unlinkFails) ==
    /\ protect(actor)
    /\ IF findByPatientId(pid) = {}
       THEN /\ resp' = Resp("deletePatient", 404, actor, pid)
            /\ UNCHANGED store
       ELSE LET patient == the(findByPatientId(pid))
                out(status) == [Resp("deletePatient", status, actor, pid)
                                  EXCEPT !.ref = patient.id,
                                         !.owner = patient.user]
            IN IF role(actor) # "admin" /\ role(actor) # "doctor"
               THEN /\ resp' = out(403)
                    /\ UNCHANGED store
               ELSE /\ documents' = documentsAfterDelete(patient.id, unlinkFails)
                    /\ files' = filesAfterDelete(patient.id, unlinkFails)
                    /\ appointments' = appointmentsAfterDelete(patient.id)
                    /\ prescriptions' = prescriptionsAfterDelete(patient.id)
                    /\ labReports' = labReportsAfterDelete(patient.id)
                    /\ patients' = patientsAfterDelete(patient)
                    /\ users' = usersAfterDelete(patient)
                    /\ accounts' = accountsAfterDelete(patient)
                    /\ resp' = [out(200) EXCEPT
                                  !.removed = dependents(patient.id)]
                    /\ UNCHANGED <<nextId, inflight>>

(* ------------------- handlers, one await at a time -------------------- *)

\* the handlers that look a patient up and then create a record for it
CreateOps ==
    {"createAppointment", "createPrescription", "createLabReport",
     "uploadPatientDocument", "processPatientDocument"}

\* a request between two awaits: patient is the document Patient.findOne
\* resolved to, id the _id of the uploaded file or of the document to
\* process, type the type of that document, pc the await completed last
Request(op, actor, pid, id, type, patient) ==
    [op |-> op, actor |-> actor, pid |-> pid, id |-> id, type |-> type,
     patient |-> patient, pc |-> "findOne"]

\* the first awaits of a handler, its reads: Patient.findOne({ patientId })
\* and, in processPatientDocument, Document.findById; a client has one
\* request in flight
findOne(actor, op, pid, id, type) ==
    /\ protect(actor)
    /\ \A r \in inflight : r.actor # actor
    /\ op = "uploadPatientDocument" => nextId <= MaxIds
    /\ LET \* diskStorage has written the file before the handler runs
           stored == IF op = "uploadPatientDocument" THEN {nextId} ELSE {}
           out(status) == [Resp(op, status, actor, pid)
                             EXCEPT !.id = id, !.stored = stored]
           gated == op \in {"createPrescription", "createLabReport",
                            "processPatientDocument"}
       IN /\ files' = files \cup stored
          /\ nextId' = IF stored # {} THEN nextId + 1 ELSE nextId
          /\ IF gated /\ ~doctor(actor)
             THEN resp' = out(403) /\ UNCHANGED inflight
             ELSE IF findByPatientId(pid) = {}
             THEN resp' = out(404) /\ UNCHANGED inflight
             ELSE IF /\ op = "deletePatient"
                     /\ role(actor) # "admin" /\ role(actor) # "doctor"
             THEN resp' = out(403) /\ UNCHANGED inflight
             ELSE IF /\ op = "processPatientDocument"
                     /\ findById(documents, id) = {}
             THEN resp' = out(404) /\ UNCHANGED inflight
             ELSE /\ inflight' = inflight \cup
                       {Request(op, actor, pid,
                                IF stored # {} THEN nextId ELSE id,
                                IF op = "processPatientDocument"
                                THEN the(findById(documents, id)).type
                                ELSE type,
                                the(findByPatientId(pid)))}
                  /\ UNCHANGED resp
    /\ UNCHANGED <<users, accounts, patients, appointments, prescriptions,
                   labReports, documents>>

\* the awaits that follow in a handler of CreateOps: the record is created
\* for the patient the request holds, and the handler answers
create(r, now) ==
    /\ r \in inflight
    /\ r.op \in CreateOps
    /\ LET document == [id |-> r.id, type |-> r.type]
           newAppt ==
               IF r.op = "createAppointment"
               THEN {[id |-> nextId, patient |-> r.patient.id,
                      patientName |-> "", doctor |-> r.actor, date |-> now,
                      time |-> "09:30 AM", purpose |-> "Checkup",
                      manualEntry |-> FALSE]}
               ELSE {}
           newRx ==
               IF r.op = "createPrescription"
               THEN {[id |-> nextId, patient |-> r.patient.id,
                      doctor |-> r.actor, date |-> now, status |-> "Active",
                      src |-> 0]}
               ELSE IF r.op = "processPatientDocument"
               THEN extractedPrescriptions(document, r.patient, r.actor,
                                           now, nextId)
               ELSE {}
           newLab ==
               IF r.op = "createLabReport"
               THEN {[id |-> nextId, patient |-> r.patient.id,
                      requestedBy |-> r.actor, type |-> "CBC",
                      lab |-> "City Lab", date |-> now,
                      status |-> "Pending", src |-> 0]}
               ELSE IF r.op = "processPatientDocument"
               THEN extractedLabReports(document, r.patient, r.actor,
                                        now, nextId)
               ELSE {}
           newDoc ==
               IF r.op = "uploadPatientDocument"
               THEN {[id |-> r.id, patient |-> r.patient.id,
                      title |-> "Untitled Document",
                      type |-> IF r.type # "" THEN r.type ELSE "other",
                      date |-> now, uploadedBy |-> r.actor,
                      processed |-> FALSE]}
               ELSE {}
           made == {x.id : x \in newAppt} \cup {x.id : x \in newRx}
                   \cup {x.id : x \in newLab}
           \* document.save() of a document deleted meanwhile throws; a
           \* document of type 'prescription' is not saved
           saved == findById(documents, r.id)
           \* the answer of createPrescription reads the populated patient
           status ==
               IF r.op = "processPatientDocument"
               THEN IF saved = {} /\ r.type # "prescription" THEN 500 ELSE 200
               ELSE IF /\ r.op = "createPrescription"
                       /\ \/ findById(patients, r.patient.id) = {}
                          \/ r.patient.user \notin users
               THEN 500
               ELSE 201
       IN /\ made # {} => nextId <= MaxIds
          /\ appointments' = appointments \cup newAppt
          /\ prescriptions' = prescriptions \cup newRx
          /\ labReports' = labReports \cup newLab
          /\ documents' =
                IF r.op = "processPatientDocument"
                THEN (documents \ saved) \cup {savedDocument(d) : d \in saved}
                ELSE documents \cup newDoc
          /\ nextId' = IF made # {} THEN nextId + 1 ELSE nextId
          /\ inflight' = inflight \ {r}
          /\ resp' = [Resp(r.op, status, r.actor, r.pid)
                        EXCEPT !.id = r.id, !.ref = r.patient.id,
                               !.owner = r.patient.user,
                               !.created = made \cup {x.id : x \in newDoc}]
    /\ UNCHANGED <<users, accounts, patients, files>>

\* the awaits that follow in deletePatient, one at a time: the documents
\* and their files, Appointment.deleteMany, Prescription.deleteMany,
\* LabReport.deleteMany, patient.deleteOne, and User.deleteOne with the
\* answer
cascade(r, unlinkFails) ==
    /\ r \in inflight
    /\ r.op = "deletePatient"
    /\ documents' = IF r.pc = "findOne"
                    THEN documentsAfterDelete(r.patient.id, unlinkFails)
                    ELSE documents
    /\ files' = IF r.pc = "findOne"
                THEN filesAfterDelete(r.patient.id, unlinkFails)
                ELSE files
    /\ appointments' = IF r.pc = "Document"
                       THEN appointmentsAfterDelete(r.patient.id)
                       ELSE appointments
    /\ prescriptions' = IF r.pc = "Appointment"
                        THEN prescriptionsAfterDelete(r.patient.id)
                        ELSE prescriptions
    /\ labReports' = IF r.pc = "Prescription"
                     THEN labReportsAfterDelete(r.patient.id)
                     ELSE labReports
    /\ patients' = IF r.pc = "LabReport"
                   THEN patientsAfterDelete(r.patient)
                   ELSE patients
    /\ users' = IF r.pc = "Patient" THEN usersAfterDelete(r.patient)
                ELSE users
    /\ accounts' = IF r.pc = "Patient" THEN accountsAfterDelete(r.patient)
                   ELSE accounts
    /\ inflight' =
          (inflight \ {r}) \cup
          (CASE r.pc = "findOne" -> {[r EXCEPT !.pc = "Document"]}
             [] r.pc = "Document" -> {[r EXCEPT !.pc = "Appointment"]}
             [] r.pc = "Appointment" -> {[r EXCEPT !.pc = "Prescription"]}
             [] r.pc = "Prescription" -> {[r EXCEPT !.pc = "LabReport"]}
             [] r.pc = "LabReport" -> {[r EXCEPT !.pc = "Patient"]}
             [] OTHER -> {})
    /\ resp' = IF r.pc = "Patient"
               THEN [Resp("deletePatient", 200, r.actor, r.pid)
                       EXCEPT !.ref = r.patient.id, !.owner = r.patient.user]
               ELSE resp
    /\ UNCHANGED nextId

\* an await of deletePatient rejects: the catch answers 500 and the cascade
\* stops where it is
rejects(r) ==
    /\ r \in inflight
    /\ r.op = "deletePatient"
    /\ inflight' = inflight \ {r}
    /\ resp' = [Resp("deletePatient", 500, r.actor, r.pid)
                  EXCEPT !.ref = r.patient.id, !.owner = r.patient.user]
    /\ UNCHANGED <<users, accounts, patients, appointments, prescriptions,
                   labReports, documents, files, nextId>>

\* createPatientProfile, await by await; an account may have several
\* requests in flight.  First await: Patient.findOne({ user: userId })
profileCheck(actor, pid) ==
    /\ protect(actor)
    /\ IF findByUser(actor) # {}
       THEN /\ resp' = Resp("createPatientProfile", 400, actor, pid)
            /\ UNCHANGED inflight
       ELSE /\ inflight' = inflight \cup
                 {[op |-> "createPatientProfile", actor |-> actor,
                   pid |-> pid, pc |-> "findOne"]}
            /\ UNCHANGED resp
    /\ UNCHANGED <<users, accounts, patients, appointments, prescriptions,
                   labReports, documents, files, nextId>>

\* the awaits that follow: Patient.create with the generated patientId,
\* user.save(), and the answer
profileCreate(r, body) ==
    /\ r \in inflight
    /\ r.op = "createPatientProfile"
    /\ inflight' = inflight \ {r}
    /\ IF ~patientValid(body, r.pid)
       THEN /\ resp' = [Resp("createPatientProfile", 500, r.actor, r.pid)
                          EXCEPT !.body = body]
            /\ UNCHANGED <<accounts, patients, nextId>>
       ELSE /\ nextId <= MaxIds
            /\ patients' = patients \cup
                              {newPatient(nextId, r.pid, r.actor, body)}
            /\ accounts' = [accounts EXCEPT ![r.actor].patientId = r.pid]
            /\ nextId' = nextId + 1
            /\ resp' = [Resp("createPatientProfile", 201, r.actor, r.pid)
                          EXCEPT !.body = body, !.ref = nextId,
                                 !.owner = r.actor, !.created = {nextId}]
    /\ UNCHANGED <<users, appointments, prescriptions, labReports, documents,
                   files>>

(* ------------------------ dashboardController.js ---------------------- *)

\* getDashboardStats, await by await.  The counts of today's appointments:
\* a doctor counts the own ones.  No appointment of the model has status
\* 'Completed', so the query of the remaining ones matches the same records
todayAppointments(actor, today) ==
    {a \in appointments :
        /\ a.date = today
        /\ role(actor) = "doctor" => a.doctor = actor}

\* the awaits up to Appointment.countDocuments(todayQuery); pc names the
\* count awaited last
countToday(actor, today) ==
    /\ protect(actor)
    /\ \A r \in inflight : r.actor # actor
    /\ inflight' = inflight \cup
          {[op |-> "getDashboardStats", actor |-> actor,
            pc |-> "appointmentsToday",
            stats |-> [NoResp.stats EXCEPT !.appointmentsToday =
                          Cardinality(todayAppointments(actor, today))]]}
    /\ UNCHANGED <<users, accounts, patients, appointments, prescriptions,
                   labReports, documents, files, nextId, resp>>

\* the next count of a request: the remaining appointments, all lab
\* reports, then the pending lab reports and the answer
countNext(r, today) ==
    /\ r \in inflight
    /\ r.op = "getDashboardStats"
    /\ LET remaining == Cardinality(todayAppointments(r.actor, today))
           pending == Cardinality({x \in labReports : x.status = "Pending"})
       IN CASE r.pc = "appointmentsToday" ->
                 /\ inflight' = (inflight \ {r}) \cup
                       {[r EXCEPT !.pc = "remainingAppointments",
                                  !.stats.remainingAppointments = remaining]}
                 /\ UNCHANGED resp
            [] r.pc = "remainingAppointments" ->
                 /\ inflight' = (inflight \ {r}) \cup
                       {[r EXCEPT !.pc = "labReports",
                                  !.stats.labReports = Cardinality(labReports)]}
                 /\ UNCHANGED resp
            [] OTHER ->
                 /\ inflight' = inflight \ {r}
                 /\ resp' = [Resp("getDashboardStats", 200, r.actor, "")
                               EXCEPT !.stats =
                                  [r.stats EXCEPT !.pendingReports = pending]]
    /\ UNCHANGED <<users, accounts, patients, appointments, prescriptions,
                   labReports, documents, files, nextId>>

(* --------------------------- specifications --------------------------- *)

\* a booking of a registered patient, and a manual entry
booking(pid, date, time, purpose) ==
    ApptBody(pid, "", "", date, time, purpose, FALSE)
walkIn(date, time, purpose) ==
    ApptBody("", "Walk In", "", date, time, purpose, TRUE)

\* each patient account registers its profile; the generated patientId
Registrations == {<<"u1", "P-1001">>, <<"u2", "P-1002">>}

\* a body with every field, and a body with some fields left out
fullProfile ==
    [has |-> PatientFields \cup UserFields,
     firstName |-> "Ali", lastName |-> "Raza", email |-> "ali@x.pk",
     age |-> 40, gender |-> "Male", bloodGroup |-> "O+", contact |-> "0300",
     address |-> "Lahore", emergencyContact |-> "0301",
     condition |-> "Asthma", allergies |-> <<"Pollen">>]
without(body, fields) == [body EXCEPT !.has = @ \ fields]

register ==
    \E r \in Registrations : createPatientProfile(r[1], r[2], fullProfile)

\* Spec: records of every kind are created for the patients, and patients
\* are deleted
Next ==
    \/ \E actor \in PatientUsers, pid \in PatientIds, missing \in {{}, {"age"}} :
          createPatientProfile(actor, pid, without(fullProfile, missing))
    \/ \E pid \in PatientIds :
          \E body \in {booking(pid, 1, "09:30 AM", "Checkup"),
                       walkIn(1, "09:30 AM", "Checkup")} :
             createAppointment("d1", body)
    \/ \E pid \in PatientIds : createPrescription("d1", pid, 0, 1)
    \/ \E pid \in PatientIds : createLabReport("d1", pid, "CBC", "City Lab", 0, 1)
    \/ \E pid \in PatientIds :
          uploadPatientDocument("d1", pid, pdfFile, "", "", FALSE, 1)
    \/ \E actor \in AllUsers \ {"d2"}, pid \in PatientIds, unlinkFails \in {{}, files} :
          deletePatient(actor, pid, unlinkFails)

Spec == Init /\ [][Next]_vars

\* SpecAccess: the patient-scoped reads and the update, by every account
NextAccess ==
    \/ register
    \/ \E pid \in PatientIds :
          createAppointment("u1", booking(pid, 1, "09:30 AM", "Checkup"))
    \/ \E actor \in AllUsers \ {"d2"}, pid \in PatientIds : getPatient(actor, pid)
    \/ \E actor \in AllUsers \ {"d2"}, pid \in PatientIds : updatePatient(actor, pid, NoBody)
    \/ \E actor \in AllUsers \ {"d2"}, pid \in PatientIds : getPatientHistory(actor, pid)
    \/ \E actor \in AllUsers \ {"d2"}, pid \in PatientIds : getPatientDocuments(actor, pid)
    \/ \E pid \in PatientIds : deletePatient("d1", pid, {})

SpecAccess == Init /\ [][NextAccess]_vars

\* SpecAppointments: the appointment handlers, by a doctor and a patient
NextAppointments ==
    \/ register
    \/ \E pid \in PatientIds :
          \E body \in {booking(pid, 1, "09:30 AM", "Checkup"),
                       walkIn(1, "09:30 AM", "Checkup")} :
             createAppointment("d1", body)
    \/ \E actor \in {"d1", "u1"}, a \in appointments :
          \E body \in {booking("", 2, "", ""), walkIn(0, "", "")} :
             updateAppointment(actor, a.id, body)
    \/ \E actor \in {"d1", "u1"}, a \in appointments : getAppointment(actor, a.id)
    \/ \E actor \in {"d1", "u1"}, a \in appointments : deleteAppointment(actor, a.id)
    \/ \E actor \in {"d1", "u1"}, pid \in PatientIds :
          getPatientAppointments(actor, pid)

SpecAppointments == Init /\ [][NextAppointments]_vars

\* SpecLists: the listings of lab reports and prescriptions
NextLists ==
    \/ register
    \/ \E pid \in PatientIds : createPrescription("d1", pid, 0, 1)
    \/ \E pid \in PatientIds, type \in LabTypes :
          createLabReport("d1", pid, type, "City Lab", 0, 1)
    \/ uploadPatientDocument("d1", "P-1002", pdfFile, "", "lab-report", FALSE, 1)
    \/ \E pid \in PatientIds, d \in documents :
          processPatientDocument("d1", pid, d.id, 1)
    \/ \E actor \in {"d1", "u1"} : getAllPrescriptions(actor)
    \/ \E actor \in {"d1", "u1"},
          filter \in {<<"", Absent, Absent>>, <<"Pending", 2, 1>>},
          search \in {"", "cb"} :
          \E strictQuery \in IF search = "" THEN {FALSE} ELSE BOOLEAN :
             getAllLabReports(actor, filter[1], filter[2], filter[3], search,
                              strictQuery)

SpecLists == Init /\ [][NextLists]_vars

\* SpecOrder: one patient, events of several dates and times, the timeline
NextOrder ==
    \/ createPatientProfile("u1", "P-1001", fullProfile)
    \/ \E date \in Dates, time \in Times :
          createAppointment("d1", booking("P-1001", date, time, "Checkup"))
    \/ \E date \in Dates : createPrescription("d1", "P-1001", date, 1)
    \/ \E date \in Dates : createLabReport("d1", "P-1001", "CBC", "City Lab", date, 1)
    \/ getPatientHistory("d1", "P-1001")

SpecOrder == Init /\ [][NextOrder]_vars

\* SpecHistory: two patients, records of every kind, the timelines
NextHistory ==
    \/ register
    \/ \E pid \in PatientIds :
          \E body \in {booking(pid, 1, "09:30 AM", "Checkup"),
                       booking(pid, 1, "09:30 AM", "Followup"),
                       walkIn(1, "09:30 AM", "Checkup")} :
             createAppointment("d1", body)
    \/ \E pid \in PatientIds : createPrescription("d1", pid, 0, 1)
    \/ \E pid \in PatientIds : createLabReport("d1", pid, "CBC", "City Lab", 0, 1)
    \/ \E pid \in PatientIds, type \in {"doctor-note", "other"} :
          uploadPatientDocument("d1", pid, pdfFile, "", type, FALSE, 1)
    \/ \E pid \in PatientIds : getPatientHistory("d1", pid)

SpecHistory == Init /\ [][NextHistory]_vars

\* SpecDocuments: documents are uploaded, processed, listed, and the
\* timeline read
NextDocuments ==
    \/ register
    \/ \E pid \in PatientIds, type \in DocTypes :
          uploadPatientDocument("d1", pid, pdfFile, "", type, FALSE, 1)
    \/ \E actor \in {"d1", "u1"}, pid \in PatientIds, d \in documents :
          processPatientDocument(actor, pid, d.id, 1)
    \/ \E pid \in PatientIds : getPatientDocuments("d1", pid)
    \/ \E pid \in PatientIds : getPatientHistory("d1", pid)

SpecDocuments == Init /\ [][NextDocuments]_vars

\* SpecUploads: files of every kind are uploaded for existing and missing
\* patients, by a doctor and by a patient account
NextUploads ==
    \/ createPatientProfile("u1", "P-1001", fullProfile)
    \/ \E actor \in {"d1", "u1"}, pid \in PatientIds, file \in Files,
          type \in {"", "other", "x-ray"} :
          uploadPatientDocument(actor, pid, file, "", type, FALSE, 1)
    \/ getPatientDocuments("d1", "P-1001")

SpecUploads == Init /\ [][NextUploads]_vars

\* SpecRemoval: documents of a patient, uploaded by a doctor and by the
\* patient account, are removed by every account, under either patient
NextRemoval ==
    \/ register
    \/ \E actor \in {"d1", "u1"} :
          uploadPatientDocument(actor, "P-1001", pdfFile, "", "", FALSE, 1)
    \/ \E actor \in AllUsers \ {"d2"}, pid \in PatientIds, d \in documents,
          unlinkFails \in BOOLEAN, removeSupported \in BOOLEAN :
          deletePatientDocument(actor, pid, d.id, unlinkFails, removeSupported)

SpecRemoval == Init /\ [][NextRemoval]_vars

\* the bodies of updatePatient: fields given with values, fields given
\* empty or zero, a gender outside the enum, and no field at all
Patches ==
    {NoBody,
     [NoBody EXCEPT !.has = {"condition"}],
     [NoBody EXCEPT !.has = {"age", "gender"}, !.age = 41, !.gender = "Female"],
     [NoBody EXCEPT !.has = {"firstName"}, !.firstName = "Zara"],
     [NoBody EXCEPT !.has = {"gender"}, !.gender = "X"]}

\* SpecRegistration: patients are registered by themselves and by staff,
\* with complete and incomplete bodies and colliding identifiers, and updated
NextRegistration ==
    \/ \E pid \in PatientIds :
          \E body \in {fullProfile, without(fullProfile, {"address"})} :
             createPatientProfile("u1", pid, body)
    \/ \E actor \in {"d1", "u1"}, pid \in PatientIds :
          \E body \in {fullProfile, without(fullProfile, {"age"}),
                       [fullProfile EXCEPT !.email = "sara@x.pk"],
                       [fullProfile EXCEPT !.email = "d1"]} :
             createPatient(actor, pid, body)
    \/ \E actor \in {"d1", "u1"}, pid \in PatientIds, body \in Patches :
          updatePatient(actor, pid, body)

SpecRegistration == Init /\ [][NextRegistration]_vars

\* SpecReports: prescriptions and lab reports of one patient are created,
\* updated and listed by accounts of every role
NextReports ==
    \/ createPatientProfile("u1", "P-1001", fullProfile)
    \/ \E actor \in {"a1", "u1"} : createPrescription(actor, "P-1001", 0, 1)
    \/ \E actor \in {"d1", "a1", "u1"}, date \in {0, 2} :
          createLabReport(actor, "P-1001", "CBC", "City Lab", date, 1)
    \/ \E actor \in AllUsers, r \in labReports :
          updateLabReport(actor, r.id, "Completed", 0)
    \/ \E actor \in AllUsers, rx \in prescriptions :
          updatePrescription(actor, rx.id, "Completed")
    \/ uploadPatientDocument("u1", "P-1001", pdfFile, "", "prescription",
                             FALSE, 1)
    \/ \E actor \in {"d1", "a1", "u1"}, d \in documents :
          processPatientDocument(actor, "P-1001", d.id, 1)
    \/ \E actor \in {"d1", "u1"}, status \in {"", "Pending"},
          paging \in {<<Absent, Absent>>, <<2, 1>>, <<1, 2>>} :
          getAllLabReports(actor, status, paging[1], paging[2], "", FALSE)

SpecReports == Init /\ [][NextReports]_vars

\* SpecCascade: records of one patient are created while no request is in
\* flight; deletePatient runs await by await and may stop at any of them
NextCascade ==
    \/ inflight = {} /\ createPatientProfile("u1", "P-1001", fullProfile)
    \/ inflight = {}
       /\ createAppointment("d1", booking("P-1001", 1, "09:30 AM", "Checkup"))
    \/ inflight = {} /\ createPrescription("d1", "P-1001", 0, 1)
    \/ inflight = {} /\ createLabReport("d1", "P-1001", "CBC", "City Lab", 0, 1)
    \/ inflight = {}
       /\ uploadPatientDocument("d1", "P-1001", pdfFile, "", "", FALSE, 1)
    \/ findOne("a1", "deletePatient", "P-1001", 0, "")
    \/ \E r \in inflight, unlinkFails \in {{}, files} : cascade(r, unlinkFails)
    \/ \E r \in inflight : rejects(r)

SpecCascade == Init /\ [][NextCascade]_vars

\* SpecProfiles: the patient accounts create their profiles, await by await
NextProfiles ==
    \/ \E actor \in PatientUsers, pid \in PatientIds \cup {"P-1003"} :
          profileCheck(actor, pid)
    \/ \E r \in inflight : profileCreate(r, fullProfile)

SpecProfiles == Init /\ [][NextProfiles]_vars

\* SpecDashboard: the doctor reads the dashboard, await by await, while
\* appointments and lab reports are created, updated and deleted
NextDashboard ==
    \/ createPatientProfile("u1", "P-1001", fullProfile)
    \/ \E date \in Dates :
          createAppointment("d2", [walkIn(date, "09:30 AM", "Checkup")
                                     EXCEPT !.doctor = "d1"])
    \/ \E a \in appointments : deleteAppointment("d2", a.id)
    \/ createLabReport("d2", "P-1001", "CBC", "City Lab", 0, 1)
    \/ \E r \in labReports : updateLabReport("d2", r.id, "Completed", 0)
    \/ countToday("d1", 1)
    \/ \E r \in inflight : countNext(r, 1)

SpecDashboard == Init /\ [][NextDashboard]_vars

\* SpecInterleaved: one patient; the doctor's creating requests and the
\* admin's deletePatient for that patient, await by await
NextInterleaved ==
    \/ createPatientProfile("u1", "P-1001", fullProfile)
    \/ \E op \in CreateOps, id \in 1..MaxIds :
          /\ op # "processPatientDocument" => id = 1
          /\ findOne("d1", op, "P-1001", id,
                     IF op = "uploadPatientDocument" THEN "lab-report" ELSE "")
    \/ findOne("a1", "deletePatient", "P-1001", 0, "")
    \/ \E r \in inflight : create(r, 1)
    \/ \E r \in inflight : cascade(r, {})

SpecInterleaved == Init /\ [][NextInterleaved]_vars

(* ------------------------------ claims -------------------------------- *)

\* C1: when deletePatient invoked by a doctor or admin has succeeded, no
\* Appointment, Prescription, LabReport or Document references the patient,
\* and the patient and its linked user are removed.
C1_DeleteRemovesAll ==
    (resp.op = "deletePatient" /\ resp.status = 200) =>
        /\ \A a \in appointments : a.patient # resp.ref
        /\ \A rx \in prescriptions : rx.patient # resp.ref
        /\ \A r \in labReports : r.patient # resp.ref
        /\ \A d \in documents : d.patient # resp.ref
        /\ \A p \in patients : p.id # resp.ref /\ p.patientId # resp.target
        /\ resp.owner \notin users

\* a patient with three dependent records has been deleted
C1_Witness ==
    /\ resp.op = "deletePatient"
    /\ resp.status = 200
    /\ Cardinality(resp.removed) >= 3

PatientScopedOps ==
    {"getPatient", "updatePatient", "getPatientHistory", "getPatientDocuments"}

\* C2: getPatient, updatePatient, getPatientHistory and getPatientDocuments
\* on an existing patient answer 403 exactly when the actor is neither a
\* doctor nor an admin nor the patient account linked to that patient, and
\* answer 200 only to an actor that is one of these.
C2_AccessRule ==
    (resp.op \in PatientScopedOps /\ resp.status # 404) =>
        LET allowed ==
                \/ role(resp.actor) \in {"doctor", "admin"}
                \/ role(resp.actor) = "patient" /\ resp.actor = resp.owner
        IN /\ resp.status = 403 <=> ~allowed
           /\ resp.status = 200 => allowed
           /\ resp.status \in {200, 403, 500}

\* a patient account has been refused the data of another patient
C2_Witness ==
    /\ resp.op \in PatientScopedOps
    /\ resp.status = 403
    /\ role(resp.actor) = "patient"
    /\ resp.owner \in PatientUsers \ {resp.actor}

AppointmentOps ==
    {"getAppointment", "getPatientAppointments", "updateAppointment",
     "deleteAppointment"}

\* C3: a patient account that reads, updates or deletes an appointment of
\* another patient (or lists the appointments of another patient) is
\* answered with an authorization failure.
C3_PatientOwnAppointmentsOnly ==
    (/\ resp.op \in AppointmentOps
     /\ resp.status # 404
     /\ resp.op = "getPatientAppointments" => resp.items # <<>>
     /\ role(resp.actor) = "patient"
     /\ resp.owner \in PatientUsers \ {resp.actor}) => resp.status = 403

\* C4: every record getAllLabReports and getAllPrescriptions return to a
\* patient account belongs to the patient profile of that account, whatever
\* the status filter, the search and the page.
C4_PatientSeesOwnRecords ==
    (/\ resp.op \in {"getAllLabReports", "getAllPrescriptions"}
     /\ resp.status = 200
     /\ role(resp.actor) = "patient") =>
        \A i \in 1..Len(resp.items) :
            \E p \in patients :
                p.id = resp.items[i].patient /\ p.user = resp.actor

\* a patient account got a listing of lab reports while a lab report of
\* another patient was in the store
C4_Witness ==
    /\ resp.op = "getAllLabReports"
    /\ resp.status = 200
    /\ role(resp.actor) = "patient"
    /\ Len(resp.items) >= 1
    /\ \E r \in labReports, p \in patients :
           p.id = r.patient /\ p.user # resp.actor

\* minutes since midnight of a displayed time
clockMinutes(t) ==
    CASE t = "09:00 AM" -> 540
      [] t = "09:30 AM" -> 570
      [] t = "11:00 AM" -> 660
      [] t = "11:45 AM" -> 705
      [] t = "14:00" -> 840

\* C5: in the sequence getPatientHistory returns, of two events of equal
\* time the one of the later date comes first, and of two events of equal
\* date the one of the later time comes first.
C5_MostRecentFirst ==
    (resp.op = "getPatientHistory" /\ resp.status = 200) =>
        \A i, j \in 1..Len(resp.items) :
            LET a == resp.items[i]
                b == resp.items[j]
            IN (\/ a.time = b.time /\ a.date > b.date
                \/ a.date = b.date /\ clockMinutes(a.time) > clockMinutes(b.time))
               => i < j

\* C6: getPatientHistory returns exactly one event for each Appointment,
\* Prescription, LabReport and doctor-note Document of the patient, none for
\* a record of another patient or a manual entry, and the event of an
\* appointment has type 'appointment' and a title that contains its purpose.
C6_HistoryExact ==
    (resp.op = "getPatientHistory" /\ resp.status = 200) =>
        LET n == Len(resp.items)
            events == {<<resp.items[i].type, resp.items[i].ref>> : i \in 1..n}
            expected ==
                {<<"appointment", a.id>> :
                    a \in {x \in appointments : x.patient = resp.ref}}
                \cup {<<"prescription", rx.id>> :
                    rx \in {x \in prescriptions : x.patient = resp.ref}}
                \cup {<<"lab", r.id>> :
                    r \in {x \in labReports : x.patient = resp.ref}}
                \cup {<<"note", d.id>> :
                    d \in {x \in documents :
                             x.patient = resp.ref /\ x.type = "doctor-note"}}
        IN /\ Cardinality(events) = n
           /\ events = expected
           /\ \A i \in 1..n : \A a \in appointments :
                 (resp.items[i].type = "appointment" /\ resp.items[i].ref = a.id)
                 => \E k \in 1..Len(resp.items[i].title) :
                        resp.items[i].title[k] = a.purpose

\* a timeline with an appointment has been returned while the other patient
\* had an appointment of another purpose, and a manual entry existed
C6_Witness ==
    /\ resp.op = "getPatientHistory"
    /\ resp.status = 200
    /\ \E i \in 1..Len(resp.items) : resp.items[i].type = "appointment"
    /\ \E a \in appointments : a.patient \notin {resp.ref, Sentinel}

\* the records derived from documents
derivedPrescriptions == {rx \in prescriptions : rx.src # 0}
derivedLabReports == {r \in labReports : r.src # 0}

hasEvent(type, id) ==
    \E i \in 1..Len(resp.items) :
        resp.items[i].type = type /\ resp.items[i].ref = id

\* C7 as stated: the timeline of a patient holds an entry for each record
\* derived from a document of that patient and an entry for the document.
C7_DocumentAndDerivedBothListed ==
    (resp.op = "getPatientHistory" /\ resp.status = 200) =>
        /\ \A rx \in derivedPrescriptions : \A d \in documents :
              (rx.patient = resp.ref /\ d.id = rx.src /\ d.patient = resp.ref)
              => hasEvent("prescription", rx.id) /\ hasEvent("note", d.id)
        /\ \A r \in derivedLabReports : \A d \in documents :
              (r.patient = resp.ref /\ d.id = r.src /\ d.patient = resp.ref)
              => hasEvent("lab", r.id) /\ hasEvent("note", d.id)

\* C7 amended: the timeline of the patient named in the process request
\* holds an entry for the derived record, and no timeline holds an entry
\* for a document a record was derived from.
C7_DerivedListedDocumentNot ==
    (resp.op = "getPatientHistory" /\ resp.status = 200) =>
        /\ \A rx \in derivedPrescriptions :
              rx.patient = resp.ref => hasEvent("prescription", rx.id)
        /\ \A r \in derivedLabReports :
              r.patient = resp.ref => hasEvent("lab", r.id)
        /\ \A d \in documents :
              (\/ \E rx \in derivedPrescriptions : rx.src = d.id
               \/ \E r \in derivedLabReports : r.src = d.id)
              => ~hasEvent("note", d.id)

\* a timeline has been returned for a patient that has a document and a
\* record derived from it
C7_Witness ==
    /\ resp.op = "getPatientHistory"
    /\ resp.status = 200
    /\ \E rx \in derivedPrescriptions : \E d \in documents :
          /\ rx.patient = resp.ref
          /\ d.id = rx.src
          /\ d.patient = resp.ref
          /\ hasEvent("prescription", rx.id)

\* C8: however often a document is processed, at most one Prescription or
\* LabReport derived from it exists.
C8_ProcessIdempotent ==
    \A d \in documents :
        Cardinality({rx.id : rx \in {x \in derivedPrescriptions : x.src = d.id}})
        + Cardinality({r.id : r \in {x \in derivedLabReports : x.src = d.id}})
        <= 1

\* C9: after processPatientDocument has succeeded on a document, the stored
\* Document has processed = true.
C9_ProcessedStored ==
    (resp.op = "processPatientDocument" /\ resp.status = 200) =>
        \A d \in documents : d.id = resp.id => d.processed

\* C10: a successful processPatientDocument adds exactly one Prescription
\* and no LabReport for a 'prescription' document, exactly one LabReport and
\* no Prescription for a 'lab-report' document, and no record for a
\* document of another type; it removes no record.
C10_ProcessCreatesOne ==
    [][(resp'.op = "processPatientDocument" /\ resp'.status = 200) =>
         LET type == (CHOOSE d \in documents : d.id = resp'.id).type
             newRx == Cardinality(prescriptions' \ prescriptions)
             newLab == Cardinality(labReports' \ labReports)
         IN /\ prescriptions \subseteq prescriptions'
            /\ labReports \subseteq labReports'
            /\ type = "prescription" => newRx = 1 /\ newLab = 0
            /\ type = "lab-report" => newRx = 0 /\ newLab = 1
            /\ type \notin {"prescription", "lab-report"} =>
                  newRx = 0 /\ newLab = 0]_vars

\* a lab-report document has been processed and its LabReport exists
C10_Witness ==
    /\ resp.op = "processPatientDocument"
    /\ resp.status = 200
    /\ \E r \in derivedLabReports : r.src = resp.id /\ r.id \in resp.created

\* C11: a Prescription or LabReport derived from a document references the
\* patient of that document, whatever patient the request named, and the
\* record a process call creates names the acting user as doctor or requester.
C11_DerivedSamePatient ==
    /\ \A rx \in derivedPrescriptions : \A d \in documents :
          rx.src = d.id => rx.patient = d.patient
    /\ \A r \in derivedLabReports : \A d \in documents :
          r.src = d.id => r.patient = d.patient
    /\ (resp.op = "processPatientDocument" /\ resp.status = 200) =>
          /\ \A rx \in prescriptions : rx.id \in resp.created => rx.doctor = resp.actor
          /\ \A r \in labReports : r.id \in resp.created => r.requestedBy = resp.actor

\* the allow-set of the upload contract
AllowedTypes ==
    {<<"j", "p", "e", "g">>, <<"j", "p", "g">>, <<"p", "n", "g">>,
     <<"g", "i", "f">>, <<"p", "d", "f">>, <<"d", "o", "c">>,
     <<"d", "o", "c", "x">>}

\* the extension of a file, without the dot and in lower case
extensionOf(file) ==
    IF file.ext = <<>> THEN <<>> ELSE lowerCase(Tail(file.ext))

\* the subtype of a content type: what follows the "/"
subtypeOf(file) ==
    LET k == CHOOSE i \in 1..Len(file.mime) : file.mime[i] = "/"
    IN SubSeq(file.mime, k + 1, Len(file.mime))

\* C12: an upload of a file whose extension or content type is outside the
\* allow-set, or that is larger than 10 MiB, is answered 400, creates no
\* Document and stores no file.
C12_UploadRejects ==
    [][(/\ resp'.op = "uploadPatientDocument"
        /\ resp'.file.present
        /\ \/ extensionOf(resp'.file) \notin AllowedTypes
           \/ subtypeOf(resp'.file) \notin AllowedTypes
           \/ resp'.file.size > MaxFileSize)
       => /\ resp'.status = 400
          /\ documents' = documents
          /\ files' = files]_vars

\* C13: an upload for a patient identifier that does not exist is answered
\* 404, creates no Document and leaves no file in storage.
C13_UploadMissingPatientWritesNothing ==
    [][(/\ resp'.op = "uploadPatientDocument"
        /\ uploadAccepted(resp'.file)
        /\ \A p \in patients : p.patientId # resp'.target)
       => /\ resp'.status = 404
          /\ documents' = documents
          /\ files' = files]_vars

\* who the contract lets remove a document
mayRemove(actor, d) ==
    role(actor) \in {"doctor", "admin"} \/ d.uploadedBy = actor

\* the document and the patient a deletePatientDocument request names
namedDocument(id) == CHOOSE d \in documents : d.id = id
namedPatient(pid) == CHOOSE p \in patients : p.patientId = pid

\* C14: deletePatientDocument on an existing patient and document changes
\* the Document records or the files only when the actor is the uploader, a
\* doctor or an admin and the document belongs to the patient of the
\* request; any other actor is answered 403 and nothing changes.
C14_RemoveOnlyAuthorized ==
    [][(resp'.op = "deletePatientDocument" /\ resp'.status # 404) =>
         LET d == namedDocument(resp'.id)
             p == namedPatient(resp'.target)
         IN /\ (documents' # documents \/ files' # files) =>
                  mayRemove(resp'.actor, d) /\ d.patient = p.id
            /\ ~mayRemove(resp'.actor, d) =>
                  /\ resp'.status = 403
                  /\ documents' = documents
                  /\ files' = files]_vars

\* a patient account that did not upload the document has been refused,
\* and the document and its file are still there
C14_Witness ==
    /\ resp.op = "deletePatientDocument"
    /\ resp.status = 403
    /\ role(resp.actor) = "patient"
    /\ resp.id \in files
    /\ \E d \in documents :
          d.id = resp.id /\ d.patient = resp.ref /\ d.uploadedBy # resp.actor

\* C15: when a permitted deletePatientDocument cannot delete the backing
\* file (the file is still there afterwards), the Document record is
\* deleted all the same and the answer is 200.
C15_RemoveFileBestEffort ==
    [][(/\ resp'.op = "deletePatientDocument"
        /\ resp'.status # 404
        /\ mayRemove(resp'.actor, namedDocument(resp'.id))
        /\ namedDocument(resp'.id).patient = namedPatient(resp'.target).id
        /\ resp'.id \in files
        /\ resp'.id \in files')
       => /\ resp'.status = 200
          /\ \A d \in documents' : d.id # resp'.id]_vars

\* C16: when deletePatient, permitted and on an existing patient, cannot
\* delete the file of a document of the patient (the file is still there
\* afterwards), it still answers 200, every Document, Appointment,
\* Prescription and LabReport of the patient is deleted, and the Patient and
\* its User are removed.
C16_CascadeSurvivesUnlinkFailure ==
    [][(/\ resp'.op = "deletePatient"
        /\ resp'.status # 404
        /\ role(resp'.actor) \in {"doctor", "admin"}
        /\ \E d \in documents : d.patient = resp'.ref /\ d.id \in files')
       => /\ resp'.status = 200
          /\ \A d \in documents' : d.patient # resp'.ref
          /\ \A a \in appointments' : a.patient # resp'.ref
          /\ \A rx \in prescriptions' : rx.patient # resp'.ref
          /\ \A r \in labReports' : r.patient # resp'.ref
          /\ \A p \in patients' : p.id # resp'.ref
          /\ resp'.owner \notin users']_vars

\* a patient has been deleted and the file of one of its documents is
\* still in storage
C16_Witness ==
    /\ resp.op = "deletePatient"
    /\ resp.status = 200
    /\ Cardinality(resp.removed) >= 2
    /\ \E f \in files : f \in resp.removed

\* C17: a successful updatePatient leaves every field of the patient and of
\* its user that the request does not carry as it was, and gives every
\* field the request carries the value of the request.
C17_UpdateMergePatch ==
    [][(resp'.op = "updatePatient" /\ resp'.status = 200) =>
         LET b == resp'.body
             old == CHOOSE p \in patients : p.id = resp'.ref
             new == CHOOSE p \in patients' : p.id = resp'.ref
         IN /\ \A f \in PatientFields :
                  new[f] = IF f \in b.has THEN b[f] ELSE old[f]
            /\ \A f \in UserFields :
                  accounts'[resp'.owner][f] =
                      IF f \in b.has THEN b[f] ELSE accounts[resp'.owner][f]]_vars

\* C18: no two Patient records have the same patientId, and the patientId
\* of a Patient record never changes.
C18_PatientIdUniqueImmutable ==
    [][/\ \A p, q \in patients' : p.id # q.id => p.patientId # q.patientId
       /\ \A p \in patients : \A q \in patients' :
             p.id = q.id => p.patientId = q.patientId]_vars

\* a registration with a complete body has been refused because its
\* identifier is the identifier of an existing patient
C18_Witness ==
    /\ resp.op \in {"createPatient", "createPatientProfile"}
    /\ resp.status = 500
    /\ ReqFields \subseteq resp.body.has
    /\ \E p \in patients : p.patientId = resp.target
    /\ Cardinality(patients) >= 1

\* C19: every Prescription, LabReport, Document and non-manual Appointment
\* references a Patient record that exists, in every state the handlers
\* reach, their awaits interleaved with those of deletePatient included.
C19_ReferencesExistingPatient ==
    /\ \A a \in appointments :
          ~a.manualEntry => findById(patients, a.patient) # {}
    /\ \A rx \in prescriptions : findById(patients, rx.patient) # {}
    /\ \A report \in labReports : findById(patients, report.patient) # {}
    /\ \A d \in documents : findById(patients, d.patient) # {}

\* C20: createPatient, when the actor is let through, and
\* createPatientProfile answer 400 and create no Patient when the body lacks
\* a required demographic field.
C20_MissingFieldIs400 ==
    [][(/\ resp'.op \in {"createPatient", "createPatientProfile"}
        /\ resp'.status # 403
        /\ ~(ReqFields \subseteq resp'.body.has))
       => resp'.status = 400 /\ patients' = patients]_vars

\* C21: createPatient writes nothing when it fails: after an answer other
\* than 201 the store holds no new User and no new Patient, and a User it
\* has created has a Patient linked to it.
C21_CreatePatientNoPartialWrite ==
    [][resp'.op = "createPatient" =>
          /\ resp'.status # 201 => users' = users /\ patients' = patients
          /\ \A u \in users' \ users : \E p \in patients' : p.user = u]_vars

\* C22: getAllLabReports with a status filter, page p and limit n (1 and 10
\* when omitted) returns only reports of that status among those the actor
\* may see, the reports at positions (p-1)*n+1 .. p*n of their
\* date-descending list, the number of all of them as total, and
\* ceil(total / n) as the page count.
C22_LabReportsPage ==
    (/\ resp.op = "getAllLabReports"
     /\ resp.status = 200
     /\ resp.query.status # ""
     /\ resp.query.search = "")
    => LET p == IF resp.query.page = Absent THEN 1 ELSE resp.query.page
           n == IF resp.query.limit = Absent THEN 10 ELSE resp.query.limit
           matching ==
               {r \in labReports :
                   /\ r.status = resp.query.status
                   /\ role(resp.actor) = "patient" =>
                         r.patient \in {q.id : q \in findByUser(resp.actor)}}
           total == Cardinality(matching)
           rest == total - (p - 1) * n
           items == resp.items
       IN (p >= 1 /\ n >= 1) =>
          /\ \A i \in 1..Len(items) : items[i] \in matching
          /\ \A i, j \in 1..Len(items) : i # j => items[i] # items[j]
          /\ Len(items) = IF rest < 0 THEN 0 ELSE IF rest < n THEN rest ELSE n
          /\ \A i \in 1..Len(items) :
                /\ Cardinality({r \in matching : r.date > items[i].date})
                      <= (p - 1) * n + i - 1
                /\ Cardinality({r \in matching : r.date >= items[i].date})
                      >= (p - 1) * n + i
          /\ resp.total = total
          /\ resp.pages = (total + n - 1) \div n

\* the second page of a list of Pending reports has been returned, one
\* report to the page, while another report is not Pending
C22_Witness ==
    /\ resp.op = "getAllLabReports"
    /\ resp.status = 200
    /\ resp.query.status = "Pending"
    /\ resp.query.search = ""
    /\ resp.query.page = 2
    /\ resp.query.limit = 1
    /\ Len(resp.items) = 1
    /\ resp.total >= 2
    /\ \E r \in labReports : r.status # "Pending"
    /\ \E r \in labReports : r.status = "Pending" /\ r.date > resp.items[1].date

\* C23: updatePrescription and updateLabReport change a record only for an
\* admin or for the doctor who issued or requested it; for every other
\* actor the answer is 403 and the record stays as it is.
C23_UpdateOnlyIssuerOrAdmin ==
    [][/\ resp'.op = "updateLabReport" =>
             \A r \in findById(labReports, resp'.id) :
                \/ role(resp'.actor) = "admin"
                \/ resp'.actor = r.requestedBy
                \/ resp'.status = 403 /\ labReports' = labReports
       /\ resp'.op = "updatePrescription" =>
             \A rx \in findById(prescriptions, resp'.id) :
                \/ role(resp'.actor) = "admin"
                \/ resp'.actor = rx.doctor
                \/ resp'.status = 403 /\ prescriptions' = prescriptions
       /\ \A r \in labReports : r \notin labReports' =>
             /\ resp'.op = "updateLabReport"
             /\ resp'.id = r.id
             /\ role(resp'.actor) = "admin" \/ resp'.actor = r.requestedBy
       /\ \A rx \in prescriptions : rx \notin prescriptions' =>
             /\ resp'.op = "updatePrescription"
             /\ resp'.id = rx.id
             /\ role(resp'.actor) = "admin" \/ resp'.actor = rx.doctor]_vars

\* a doctor other than the one who requested a lab report has been refused,
\* after the requesting doctor has updated a report
C23_Witness ==
    /\ resp.op = "updateLabReport"
    /\ resp.status = 403
    /\ role(resp.actor) = "doctor"
    /\ \E r \in labReports : r.id = resp.id /\ r.requestedBy # resp.actor
    /\ \E r \in labReports : r.status = "Completed"

C25_PatientCannotDelete ==
    [][(/\ resp'.op = "deletePatient"
        /\ resp'.actor \in PatientUsers
        /\ findByPatientId(resp'.target) # {})
       => /\ resp'.status = 403
          /\ UNCHANGED store]_vars

\* a patient account has asked to delete its own profile, which has
\* dependent records, and has been refused
C25_Witness ==
    /\ resp.op = "deletePatient"
    /\ resp.status = 403
    /\ resp.actor \in PatientUsers
    /\ resp.owner = resp.actor
    /\ dependents(resp.ref) # {}
    /\ findByPatientId(resp.target) # {}

\* C26: an actor without rights gets the same refusal from deletePatient,
\* processPatientDocument and deletePatientDocument whether or not the
\* patient or document it names exists: the refusal for an existing target
\* is 403, so the answer of a patient account that has uploaded no document
\* is 403 for every target.
C26_DenialHidesExistence ==
    [][(/\ resp'.op \in {"deletePatient", "processPatientDocument",
                         "deletePatientDocument"}
        /\ resp'.actor \in PatientUsers
        /\ \A d \in documents : d.uploadedBy # resp'.actor)
       => resp'.status = 403]_vars

\* C27: deletePatient removes Documents, Appointments, Prescriptions,
\* LabReports, the Patient and the User in this order: the Patient goes
\* only when no record found for it is left and the User only after the
\* Patient, so a cascade that stops at a failing step, no other writer
\* running, leaves no Appointment, Prescription, LabReport or Document that
\* references a removed Patient.
C27_CascadeOrder ==
    [][/\ \A a \in appointments \ appointments' :
             \A d \in documents : d.patient # a.patient
       /\ \A rx \in prescriptions \ prescriptions' :
             \A a \in appointments : a.patient # rx.patient
       /\ \A r \in labReports \ labReports' :
             \A rx \in prescriptions : rx.patient # r.patient
       /\ \A p \in patients \ patients' : dependents(p.id) = {}
       /\ \A u \in users \ users' : findByUser(u) = {}
       /\ \A a \in appointments' :
             ~a.manualEntry => \E p \in patients' : p.id = a.patient
       /\ \A rx \in prescriptions' : \E p \in patients' : p.id = rx.patient
       /\ \A r \in labReports' : \E p \in patients' : p.id = r.patient
       /\ \A d \in documents' : \E p \in patients' : p.id = d.patient]_vars

\* a cascade has stopped at a failing step after the documents were
\* removed: the patient and a prescription of it are still there
C27_Witness ==
    /\ resp.op = "deletePatient"
    /\ resp.status = 500
    /\ inflight = {}
    /\ findById(patients, resp.ref) # {}
    /\ \E f \in files : findById(documents, f) = {}
    /\ \E rx \in prescriptions : rx.patient = resp.ref

\* C28: after any createAppointment and updateAppointment, every
\* Appointment whose patient reference is the sentinel has manualEntry set
\* and a patientName; an update that carries only date, time or purpose
\* leaves patientName and manualEntry of a manual-entry appointment alone.
C28_ManualEntryKept ==
    [][/\ \A a \in appointments' :
             a.patient = Sentinel => a.manualEntry /\ a.patientName # ""
       /\ (/\ resp'.op = "updateAppointment"
           /\ resp'.status = 200
           /\ resp'.appt.patient = ""
           /\ resp'.appt.patientName = ""
           /\ resp'.appt.doctor = ""
           /\ ~resp'.appt.manualEntry)
          => \A a \in appointments, b \in appointments' :
                (a.id = resp'.id /\ b.id = a.id /\ a.manualEntry)
                => b.manualEntry /\ b.patientName = a.patientName]_vars

\* C29: a User has at most one Patient profile: createPatientProfile for a
\* user that has a profile answers 400 and creates nothing, also when two
\* requests of the user interleave between the check and the create.
C29_OneProfilePerUser ==
    [][/\ \A p, q \in patients' : p.user = q.user => p.id = q.id
       /\ (/\ resp'.op = "createPatientProfile"
           /\ inflight' \subseteq inflight
           /\ findByUser(resp'.actor) # {})
          => resp'.status = 400 /\ patients' = patients]_vars

\* C30: in every answer of getDashboardStats remainingAppointments is at
\* most appointmentsToday and pendingReports at most labReports, also when
\* other requests create, update or delete appointments or lab reports
\* between its counts.
C30_DashboardCountsConsistent ==
    resp.op = "getDashboardStats" =>
        /\ resp.stats.remainingAppointments <= resp.stats.appointmentsToday
        /\ resp.stats.pendingReports <= resp.stats.labReports

====
